---- MODULE Spec2Model ----
(***************************************************************************)
(* RepoScribe: the file selection engine (FileScanner.scan), the tree      *)
(* builder (buildFileTree / sortTree), content assembly and the atomic     *)
(* write (GenerationCoordinator.generate, FileSystem.atomicWrite) and the  *)
(* triggers that start runs (WorkspaceWatcher, CommandRegistry).           *)
(*                                                                         *)
(* One module, several specifications over the same variables:            *)
(*   SpecScan      FileScanner.scan on bounded inputs                      *)
(*   SpecTree      buildFileTree on bounded path lists                     *)
(*   SpecAssemble  stage 5 of generate(): the concurrent stat/read tasks   *)
(*   SpecWrite     FileSystem.atomicWrite, one call at a time              *)
(*   Spec          the coordinator's runs and the triggers starting them   *)
(*   SpecResolve   resolveConfig on bounded base and user configurations   *)
(*   SpecConfig    ConfigurationService.getConfigContext and its cache     *)
(*   SpecWatch     the general watcher, its debounced function, resets     *)
(*   SpecPreFilter createPreFilter against FileScanner.scan                *)
(*   SpecRender    MarkdownBuilder.build on the tree and the content map   *)
(*   SpecInclude   FileScanner.scan, include patterns of both kinds        *)
(*   SpecInsert    buildFileTree on lists with repeated paths              *)
(*   SpecPool      stage 5 of generate(): the operations in flight         *)
(*   SpecOutputPath the path generate() writes its output to               *)
(*   SpecGenerate  the try block of generate() and its catch               *)
(*   SpecStartup   activate(), the stored pause state and the commands     *)
(*   SpecLoop      the file events of a run's own writes                   *)
(*   SpecRefresh   what the watcher's filter was built from, per trigger   *)
(*   SpecGitignore FileSystem.updateGitignore on the text of .gitignore    *)
(*   SpecOrder     overlapping generate() calls and the last write         *)
(*   SpecReset     overlapping resetWatchers calls and the events between  *)
(*   SpecSelection generateMarkdownForSelection and its command            *)
(* A specification leaves the variables of the others at their "off"      *)
(* values.                                                                 *)
(***************************************************************************)
EXTENDS Integers, Sequences, FiniteSets, TLC

VARIABLES
  \* ---- FileScanner.scan -------------------------------------------------
  scanPc,            \* "off" | "input" | "done"
  gitignoreContent,  \* the parsed lines of .gitignore: a sequence of patterns
  userConfig,        \* [include |-> patterns, exclude |-> patterns]
  finalFiles,        \* the list scan returned (relative paths)
  \* ---- buildFileTree ------------------------------------------------------
  treePc,            \* "off" | "input" | "done"
  filePaths,         \* the flat list handed to buildFileTree
  tree,              \* the FileNode tree it returned
  \* ---- generate(), stage 5: content assembly -------------------------------
  asmPc,             \* "off" | "reading" | "rendered" | "error"
  maxFileSizeKb,     \* finalConfig.maxFileSizeKb
  fileSize,          \* path -> stats.size in bytes
  taskPc,            \* path -> "stat" | "read" | "done": the task of that file
  fileContents,      \* the Map: path -> content or placeholder
  readCalls,         \* the paths fs.readFile was called on
  failed,            \* the paths whose stat or read threw
  \* ---- the coordinator's runs, the files they write, the triggers ----------
  runs,              \* run number -> the record of that generate() call
  started,           \* how many generate() calls were made so far
  workspace,         \* the version of the workspace's files
  output,            \* the output file
  tmpFiles,          \* temp name -> the temp file of that name
  debounceArmed,     \* the timer of this.debouncedGenerate is pending
  orphanTimers,      \* pending timers of debounced functions resetWatchers replaced
  isPaused,          \* WorkspaceWatcher.isPaused / CommandRegistry.isAutoGenerationPaused
  cachedContext,     \* ConfigurationService.cachedContext is set
  gitignoreListsOutput,  \* .gitignore has a line equal to the output file
  gitignoreEvent,    \* the watcher event of a write to .gitignore is undelivered
  \* ---- resolveConfig ------------------------------------------------------
  resolvePc,         \* "off" | "input" | "done"
  resolveArgs,       \* [base |-> baseConfig, user |-> userConfig] as passed
  baseObject,        \* the object passed as baseConfig, as it is now
  resolved,          \* the object resolveConfig returned
  \* ---- ConfigurationService.getConfigContext -------------------------------
  configCalls,       \* caller -> the record of its getConfigContext() call
  contextCache,      \* ConfigurationService.cachedContext: None or Some(context)
  configFile,        \* .reposcribe.config.js: absent, malformed or valid
  configEdits,       \* how often the file was changed so far
  invalidated,       \* clearCache() was called since the file last changed
  \* ---- WorkspaceWatcher: the general watcher and its debounced function ------
  watchPc,           \* "off" | "watching" | "disposed" | "filter": resetWatchers
  now,               \* the clock, in ticks
  timerDue,          \* when the timer of this.debouncedGenerate runs out; 0: not set
  orphanDue,         \* the same for the debounced functions that were replaced
  watchLog,          \* the events passed to the debounced function and the
                     \* generate() calls it made, in order, with their times
  resets,            \* how often resetWatchers was called so far
  \* ---- WorkspaceWatcher: the pre-filter -------------------------------------
  preFilter,         \* None, or Some(rules): what createPreFilter returned
  handled,           \* None, or the last general event and whether it was dropped
  \* ---- MarkdownBuilder.build ------------------------------------------------
  renderPc,          \* "off" | "scanned" | "read" | "built"
  contentMap,        \* the Map handed to build: path -> content or placeholder
  markdown,          \* the parts build joined, in order
  \* ---- generate(), stage 5: the operations in flight ------------------------
  poolPc,            \* "off" | "scanned" | "reading" | "resolved"
  poolFiles,         \* how many files the scan selected
  poolStat,          \* fs.stat calls in flight
  poolRead,          \* fs.readFile calls in flight
  poolSettled,       \* tasks that have returned
  \* ---- generate(), stage 7: where the output goes ----------------------------
  outPc,             \* "off" | "config" | "resolved" | "written"
  outUserFile,       \* None, or Some(path): outputFile of the user configuration
  outputFilePath,    \* None, or Some(path): the path handed to atomicWrite
  \* ---- generate(): the try block and its catch --------------------------------
  genCalls,          \* the generate() calls so far, in order: for each its
                     \* position, the stages it completed, the status it showed
                     \* last, the stage that threw and how its promise settled
  genOn,             \* whether this specification is the one running
  \* ---- activate() and the commands: the pause state ---------------------------
  upPc,              \* "off" | "inactive" | "active"
  storedPauseState,  \* workspaceState[PAUSE_STATE_KEY]: "undefined" | "true" | "false"
  wasNew,            \* nothing was stored when the workspace was first opened
  activations,       \* how often activate() ran
  cmdPaused,         \* CommandRegistry.isAutoGenerationPaused
  watcherPaused,     \* WorkspaceWatcher.isPaused
  upCache,           \* "empty" | "loaded": cachedContext of the config service
  upArmed,           \* the timer of the debounced generate is pending
  upRuns,            \* the generate() calls so far: who made each and what
                     \* the config cache held at the call
  \* ---- a run's own writes and the watchers -----------------------------------
  lpOn,              \* whether this specification is the one running
  lpRuns,            \* the runs in progress: position, output file, and whether
                     \* resetWatchers follows
  lpConfigOut,       \* outputFile of the configuration file on disk
  lpCache,           \* "none", or outputFile of the cached configuration
  lpWatchOut,        \* relativeOutputFile the handlers were made with
  lpWatchIgnore,     \* the output files .gitignore listed when the pre-filter
                     \* was made
  lpIncludeTmp,      \* the user's include list is one pattern for temp files
  lpIgnore,          \* the output files .gitignore lists
  lpEvents,          \* paths with a file event not yet delivered
  lpArmed,           \* the timer of the debounced generate is pending
  lpOrphan,          \* the timer of a replaced debounced function is pending
  lpTriggered,       \* the one outside trigger has happened
  \* ---- what the watcher's filter was built from, runs of every trigger --------
  refreshState,      \* "off", or a record: its fields are read by the
                     \* definitions that follow the groups of variables
  \* ---- FileSystem.updateGitignore on the text of .gitignore -------------------
  gitignoreState,    \* "off", or a record: its fields are read by the
                     \* definitions that follow the groups of variables
  \* ---- overlapping generate() calls: who writes the output file last ----------
  orderState,        \* "off", or a record: its fields are read by the
                     \* definitions that follow the groups of variables
  \* ---- resetWatchers calls that overlap, and the events in between ------------
  resetState,        \* "off", or a record: its fields are read by the
                     \* definitions that follow the groups of variables
  \* ---- reposcribe.generateForSelection and generateMarkdownForSelection -------
  selectionState     \* "off", or a record: its fields are read by the
                     \* definitions that follow the groups of variables

scanVars == <<scanPc, gitignoreContent, userConfig, finalFiles>>
treeVars == <<treePc, filePaths, tree>>
asmVars == <<asmPc, maxFileSizeKb, fileSize, taskPc, fileContents, readCalls, failed>>
fileVars == <<output, tmpFiles>>
triggerVars == <<debounceArmed, orphanTimers, isPaused, gitignoreEvent>>
coordVars == <<runs, started, workspace, fileVars, triggerVars, cachedContext,
               gitignoreListsOutput>>
pureVars == <<scanVars, treeVars, asmVars>>
resolveVars == <<resolvePc, resolveArgs, baseObject, resolved>>
\* The variables of the specifications that follow the coordinator's.
configVars == <<configCalls, contextCache, configFile, configEdits, invalidated>>
watchVars == <<watchPc, now, timerDue, orphanDue, watchLog, resets>>
preFilterVars == <<preFilter, handled>>
renderVars == <<renderPc, contentMap, markdown>>
\* The variables of the specifications of single concerns that come last.
poolVars == <<poolPc, poolFiles, poolStat, poolRead, poolSettled>>
outPathVars == <<outPc, outUserFile, outputFilePath>>
genVars == <<genCalls, genOn>>
startupVars == <<upPc, storedPauseState, wasNew, activations, cmdPaused,
                 watcherPaused, upCache, upArmed, upRuns>>
loopVars == <<lpOn, lpRuns, lpConfigOut, lpCache, lpWatchOut, lpWatchIgnore,
              lpIncludeTmp, lpIgnore, lpEvents, lpArmed, lpOrphan, lpTriggered>>
\* The variables of the specifications added after those.
refreshVars == <<refreshState>>
gitVars == <<gitignoreState>>
orderVars == <<orderState>>
resetVars == <<resetState>>
selVars == <<selectionState>>

\* The fields of the five records above.

\* WorkspaceWatcher.isPaused
rfPaused == refreshState.paused
\* the version of .reposcribe.config.js on disk
rfConfigFile == refreshState.configFile
\* the version of .gitignore on disk
rfGitFile == refreshState.gitFile
\* ConfigurationService.cachedContext: None or Some(version)
rfCache == refreshState.cache
\* versions the pre-filter and relativeOutputFile were made from
rfWatch == refreshState.watch
\* events of the config watcher not yet delivered
rfConfigEvents == refreshState.configEvents
\* the timer of this.debouncedGenerate is pending
rfArmed == refreshState.armed
\* slot -> a generate() call in progress
rfRuns == refreshState.runs

\* .gitignore: None (absent) or Some(sequence of characters)
giFile == gitignoreState.file
\* what giFile was when the last call began
giBefore == gitignoreState.before
\* the last call called writeFile
giWrote == gitignoreState.wrote
\* the calls so far: "returned" or "threw", in order
giCalls == gitignoreState.calls

\* the version of the files of the workspace
orWorkspace == orderState.workspace
\* the generate() calls in the order they were made: position
\* and the version scanned
orRuns == orderState.runs
\* the version the output file was rendered from, 0: none
orOutput == orderState.output
\* the workspace changed after the last generate() call
orChanged == orderState.changed

\* the pairs of watchers in this.disposables, all of them live
rsLive == resetState.live
\* runs in progress that onConfigChange started
rsRuns == resetState.runs
\* resetWatchers calls at await getConfigContext()
rsAwaitConfig == resetState.awaitConfig
\* resetWatchers calls at await createPreFilter(config)
rsAwaitFilter == resetState.awaitFilter
\* the timer of this.debouncedGenerate is pending
rsArmed == resetState.armed
\* the timer of a replaced debounced function is pending
rsOrphan == resetState.orphan
\* a file changed and no run has started since
rsOwed == resetState.owed
\* how often the last file event called the debounced function
rsCalls == resetState.calls
\* the changes of a configuration file so far
rsEvents == resetState.events

\* "input" | "config" | "stat" | "read" | "returned" | "rejected" | "done"
slPc == selectionState.pc
\* selectedPaths
slSelected == selectionState.selected
\* userConfig.exclude
slUserExclude == selectionState.userExclude
\* allWorkspaceFiles
slScan == selectionState.scan
\* filesInSelection
slResult == selectionState.result
\* the status shown, the output file, whether .gitignore
\* lists it, whether updateToIdleTimer is pending
slWorld == selectionState.world
\* slWorld when generateMarkdownForSelection was called
slAtCall == selectionState.atCall
fourthVars == <<refreshVars, gitVars, orderVars, resetVars, selVars>>
thirdVars == <<poolVars, outPathVars, genVars, startupVars, loopVars, fourthVars>>
priorVars == <<poolVars, outPathVars, genVars, startupVars, loopVars>>
earlierVars == <<pureVars, coordVars, resolveVars, configVars, watchVars,
                 preFilterVars, renderVars>>
laterVars == <<resolveVars, configVars, watchVars, preFilterVars, renderVars,
               thirdVars>>
vars == <<pureVars, coordVars, laterVars>>

\* ------------------------------------------------------------------------
\* Bounds
\* ------------------------------------------------------------------------
MaxGitignoreLines == 1
MaxIncludePatterns == 1
MaxExcludePatterns == 2
MaxUserExcludes == 1
MaxTreePaths == 3
MaxAsmFiles == 2
MaxLimitKb == 2
MaxRuns == 3
MaxConcurrent == 2
MaxWorkspaceChanges == 1
MaxResolveList == 2
MaxConfigCalls == 2
MaxConfigEdits == 1
MaxTime == 6
MaxEvents == 3
MaxResets == 1
DebounceWait == 2
MaxPoolFiles == 17
MaxOutputSegments == 3
MaxGenerateCalls == 3
MaxStartupRuns == 3
MaxActivations == 2
MaxLoopSlots == 2
MaxRefreshEdits == 2
MaxRefreshSlots == 2
MaxSelectionExcludes == 1
MaxSelected == 2
MaxResetEvents == 2
MaxOrderChanges == 2
MaxOrderRuns == 3
MaxGitignoreCalls == 2
MaxGitignoreChars == 4

\* ------------------------------------------------------------------------
\* Program constants
\* ------------------------------------------------------------------------
BytesPerKb == 1024
\* "bounded concurrency of 16" (system design, content assembly)
WorkerPoolWidth == 16

\* ------------------------------------------------------------------------
\* Helpers
\* ------------------------------------------------------------------------
Range(s) == {s[i] : i \in 1..Len(s)}

SeqsUpTo(S, n) == UNION {[1..k -> S] : k \in 0..n}

Last(s) == s[Len(s)]

Prefix(p, k) == SubSeq(p, 1, k)

\* ------------------------------------------------------------------------
\* Paths and patterns.  A relative path is the sequence of its segments
\* ('dist/bundle.js' is <<"dist", "bundle.js">>).  A pattern is one line of
\* gitignore syntax, kept as the shape the 'ignore' package compiles it to:
\*   all       '**/*'          any path
\*   lit       'dist/bundle.js' (a slash inside: anchored at the root)
\*   name      'pnpm-lock.yaml', '**/pnpm-lock.yaml' (a basename, any depth)
\*   dir       'dist/'         a directory of that name, any depth
\*   under     'dist/**'       anything strictly below that root directory
\*   anyunder  '**/dist/**'    anything strictly below a directory so named
\*   ext       '*.log', '**/*.log'  a basename with that extension
\* neg is the leading '!'.
\* ------------------------------------------------------------------------
Pat(neg, kind, segs) == [neg |-> neg, kind |-> kind, segs |-> segs]

ExtOf(name) ==
  CASE name = "a.ts" -> "ts"
    [] name = "bundle.js" -> "js"
    [] name = "pnpm-lock.yaml" -> "yaml"
    [] name = "app.log" -> "log"
    [] name = "readme.md" -> "md"
    [] OTHER -> ""

\* The files fast-glob discovers in the workspace of the model (stage 1).
allRelativeFiles ==
  << <<"src", "a.ts">>, <<"dist", "bundle.js">>, <<"pnpm-lock.yaml">>,
     <<"app.log">>, <<"src", "app.log">>, <<"readme.md">> >>

\* BASE_CONFIG.exclude, cut down to the entries that bear on these files.
BaseExclude ==
  << Pat(FALSE, "anyunder", <<"dist">>),
     Pat(FALSE, "ext", <<"log">>),
     Pat(FALSE, "name", <<"pnpm-lock.yaml">>) >>

\* Lines a .gitignore or a user exclude list may hold.
ExcludePool ==
  { Pat(FALSE, "dir", <<"dist">>),
    Pat(FALSE, "under", <<"dist">>),
    Pat(FALSE, "name", <<"pnpm-lock.yaml">>),
    Pat(FALSE, "ext", <<"log">>),
    Pat(FALSE, "ext", <<"ts">>),
    Pat(TRUE, "lit", <<"src", "a.ts">>) }

\* Entries a user include list may hold.
IncludePool ==
  { Pat(FALSE, "lit", <<"dist", "bundle.js">>),
    Pat(FALSE, "name", <<"pnpm-lock.yaml">>),
    Pat(FALSE, "ext", <<"log">>),
    Pat(FALSE, "name", <<"dist">>) }

\* The same with a pattern for a file the built-in excludes leave.
IncludePoolWide == IncludePool \cup { Pat(FALSE, "name", <<"readme.md">>) }

\* One rule's regular expression tested on a path; isDir says the tested
\* string ends in '/' (a parent directory).
Matches(pat, p, isDir) ==
  CASE pat.kind = "all" -> TRUE
    [] pat.kind = "lit" -> p = pat.segs
    [] pat.kind = "name" -> Last(p) = pat.segs[1]
    [] pat.kind = "dir" -> isDir /\ Last(p) = pat.segs[1]
    [] pat.kind = "under" ->
         Len(p) > Len(pat.segs) /\ Prefix(p, Len(pat.segs)) = pat.segs
    [] pat.kind = "anyunder" ->
         \E i \in 1..(Len(p) - 1) : p[i] = pat.segs[1]
    [] pat.kind = "ext" -> ExtOf(Last(p)) = pat.segs[1]
    [] OTHER -> FALSE

\* ignore's _testOne: the rules in order, the last one that matches decides.
TestOne(rules, p, isDir) ==
  LET hits == {i \in 1..Len(rules) : Matches(rules[i], p, isDir)}
  IN  hits # {} /\
      ~rules[CHOOSE i \in hits : \A j \in hits : j <= i].neg

\* ignore's _t: a path is ignored when one of its parent directories is
\* ignored (gitignore: a file cannot be re-included when a parent directory
\* is excluded), else by its own test.
Ignores(rules, p) ==
  \E k \in 1..Len(p) : TestOne(rules, Prefix(p, k), k < Len(p))

\* ignore().add(rules).filter(paths)
Filter(rules, paths) == SelectSeq(paths, LAMBDA p : ~Ignores(rules, p))

\* ------------------------------------------------------------------------
\* FileScanner.scan, stages 2 to 5
\* ------------------------------------------------------------------------
filesAfterGitignore(all, gitignore) == Filter(gitignore, all)

filesAfterBaseExclude(all, gitignore, baseExclude) ==
  Filter(baseExclude, filesAfterGitignore(all, gitignore))

\* A variant with filesAfterGitignore taken for the files the built-in
\* excludes removed.
filesExcludedByBase_notSubtracted(all, gitignore, baseExclude) ==
  filesAfterGitignore(all, gitignore)

\* The same, taken from the whole universe instead of the gitignore survivors.
filesExcludedByBase_fromUniverse(all, gitignore, baseExclude) ==
  LET kept == Range(filesAfterBaseExclude(all, gitignore, baseExclude))
  IN  SelectSeq(all, LAMBDA f : f \notin kept)

filesExcludedByBase(all, gitignore, baseExclude) ==
  LET kept == Range(filesAfterBaseExclude(all, gitignore, baseExclude))
  IN  SelectSeq(filesAfterGitignore(all, gitignore), LAMBDA f : f \notin kept)

\* ['**/*', ...include.map(p => `!${p}`)]
includePatterns(include) ==
  <<Pat(FALSE, "all", <<>>)>> \o
  [i \in 1..Len(include) |-> Pat(TRUE, include[i].kind, include[i].segs)]

\* A variant that adds back every file the built-in excludes removed.
filesAfterInclude_readmitAll(all, gitignore, baseExclude, include) ==
  IF Len(include) > 0
  THEN filesAfterBaseExclude(all, gitignore, baseExclude) \o
       filesExcludedByBase(all, gitignore, baseExclude)
  ELSE filesAfterBaseExclude(all, gitignore, baseExclude)

\* A variant that takes the include list for an allow-list of the whole scan.
filesAfterInclude_allowList(all, gitignore, baseExclude, include) ==
  IF Len(include) > 0
  THEN Filter(includePatterns(include),
              filesAfterBaseExclude(all, gitignore, baseExclude)) \o
       Filter(includePatterns(include),
              filesExcludedByBase(all, gitignore, baseExclude))
  ELSE filesAfterBaseExclude(all, gitignore, baseExclude)

filesAfterInclude(all, gitignore, baseExclude, include) ==
  IF Len(include) > 0
  THEN filesAfterBaseExclude(all, gitignore, baseExclude) \o
       Filter(includePatterns(include),
              filesExcludedByBase(all, gitignore, baseExclude))
  ELSE filesAfterBaseExclude(all, gitignore, baseExclude)

\* The same with the user excludes applied before the include re-admission.
scan_excludeBeforeInclude(all, baseExclude, user, gitignore) ==
  LET kept == filesAfterBaseExclude(all, gitignore, baseExclude)
      vetoed == IF Len(user.exclude) > 0 THEN Filter(user.exclude, kept) ELSE kept
  IN  IF Len(user.include) > 0
      THEN vetoed \o Filter(includePatterns(user.include),
                            filesExcludedByBase(all, gitignore, baseExclude))
      ELSE vetoed

scan(all, baseExclude, user, gitignore) ==
  LET stage4 == filesAfterInclude(all, gitignore, baseExclude, user.include)
  IN  IF Len(user.exclude) > 0 THEN Filter(user.exclude, stage4) ELSE stage4

\* ------------------------------------------------------------------------
\* buildFileTree and sortTree.  A FileNode tree is kept as a function from a
\* node's path (the sequence of its segments, <<>> for '<root>') to its type
\* and the ordered names of its children; a node's name is the last segment
\* of its path.
\* ------------------------------------------------------------------------
\* Paths of files a scan may return (no upper case: localeCompare and the
\* ordinal order agree on them).
PathPool ==
  { <<"src", "index.ts">>, <<"src", "utils", "helper.ts">>, <<"readme.md">>,
    <<"docs", "index.ts">>, <<"src", "docs">>, <<"index.ts">> }

\* a.name.localeCompare(b.name) < 0
NameRank(name) ==
  CASE name = "docs" -> 1
    [] name = "helper.ts" -> 2
    [] name = "index.ts" -> 3
    [] name = "readme.md" -> 4
    [] name = "src" -> 5
    [] name = "utils" -> 6
    [] OTHER -> 7

\* The lists a scan can return: no path twice, and no file that is also a
\* directory of another file (one directory listing).
IsFileList(paths) ==
  \A i, j \in 1..Len(paths) :
    i # j =>
      /\ paths[i] # paths[j]
      /\ ~(Len(paths[i]) < Len(paths[j]) /\
           Prefix(paths[j], Len(paths[i])) = paths[i])

RootNode == [type |-> "directory", children |-> <<>>]

EmptyTree == (<<>> :> RootNode)

\* A variant of the inner loop's round that never looks for the child.
InsertPart_alwaysPush(t, parts, i) ==
  LET parent == Prefix(parts, i - 1)
      currentPath == Prefix(parts, i)
  IN  [t EXCEPT ![parent].children = Append(@, parts[i])] @@
      (currentPath :>
         [type |-> IF i = Len(parts) THEN "file" ELSE "directory",
          children |-> <<>>])

\* One round of the inner loop: find the child named parts[i], create it if
\* absent.
InsertPart(t, parts, i) ==
  LET parent == Prefix(parts, i - 1)
      currentPath == Prefix(parts, i)
  IN  IF parts[i] \in Range(t[parent].children)
      THEN t
      ELSE [t EXCEPT ![parent].children = Append(@, parts[i])] @@
           (currentPath :>
              [type |-> IF i = Len(parts) THEN "file" ELSE "directory",
               children |-> <<>>])

RECURSIVE InsertPath(_, _, _)
InsertPath(t, parts, i) ==
  IF i > Len(parts) THEN t
  ELSE InsertPath(InsertPart(t, parts, i), parts, i + 1)

RECURSIVE InsertAll(_, _, _)
InsertAll(t, paths, k) ==
  IF k > Len(paths) THEN t
  ELSE InsertAll(InsertPath(t, paths[k], 1), paths, k + 1)

\* The comparator of node.children.sort, as "a goes before b".
ChildBefore(t, parent, a, b) ==
  LET ta == t[Append(parent, a)].type
      tb == t[Append(parent, b)].type
  IN  \/ ta = "directory" /\ tb = "file"
      \/ ta = tb /\ NameRank(a) < NameRank(b)

\* The same without the recursion into the child directories.
sortTree_rootOnly(t) ==
  [n \in DOMAIN t |->
     IF n = <<>>
     THEN [t[n] EXCEPT !.children =
             SortSeq(@, LAMBDA a, b : ChildBefore(t, n, a, b))]
     ELSE t[n]]

\* sortTree(root): the children of every node reached through directories
\* are sorted.
sortTree(t) ==
  [n \in DOMAIN t |->
     IF \A k \in 1..Len(n) : t[Prefix(n, k)].type = "directory"
     THEN [t[n] EXCEPT !.children =
             SortSeq(@, LAMBDA a, b : ChildBefore(t, n, a, b))]
     ELSE t[n]]

buildFileTree(paths) == sortTree(InsertAll(EmptyTree, paths, 1))

\* ------------------------------------------------------------------------
\* generate(), stage 5: one async task per selected file, all started by
\* Promise.all; a task awaits fs.stat, then fs.readFile.
\* ------------------------------------------------------------------------
\* absoluteFilePaths of the run (as relative paths, the keys of the Map).
absoluteFilePaths == Range(SubSeq(allRelativeFiles, 1, MaxAsmFiles))

\* The sizes a file of the model may have: around every limit.
SizeChoices ==
  {0} \cup {k * BytesPerKb + d : k \in 1..MaxLimitKb, d \in {-1, 0, 1}}

\* The messages of the errors fs.stat and fs.readFile throw.
ErrorCodes == {"ENOENT", "EACCES"}

ContentOf(f) == <<"content">> \o f

\* `[File content omitted: Exceeds ${maxFileSizeKb} KB size limit]`
OmittedMessage == <<"[File content omitted: Exceeds size limit]">>

\* `[Error reading file: ${error.message}]`
ErrorMessage(msg) == <<"[Error reading file]", msg>>

\* The same test with >= for >.
ExceedsLimit_inclusive(size, limitKb) ==
  limitKb > 0 /\ size >= limitKb * BytesPerKb

\* finalConfig.maxFileSizeKb > 0 && stats.size > finalConfig.maxFileSizeKb * 1024
ExceedsLimit(size, limitKb) ==
  limitKb > 0 /\ size > limitKb * BytesPerKb

\* The same without the try/catch: the error rejects the task.
OnTaskError_rethrow(contents, f, msg) ==
  [fileContents |-> contents, rejected |-> TRUE]

\* The catch block of a task: the placeholder is stored, nothing is re-thrown.
OnTaskError(contents, f, msg) ==
  [fileContents |-> (f :> ErrorMessage(msg)) @@ contents, rejected |-> FALSE]

\* ------------------------------------------------------------------------
\* The coordinator's runs and the files they write
\* ------------------------------------------------------------------------
Runs == 1..MaxRuns

\* The workspace's files are known by their version; a snapshot rendered from
\* version v is the content File(v).
WorkspaceVersions == 1..(1 + MaxWorkspaceChanges)

NoFile == [kind |-> "absent"]

File(v) == [kind |-> "complete", of |-> v]

\* What a write that failed midway leaves behind.
PartialFile(v) == [kind |-> "partial", of |-> v]

\* pc: where the call stands; snap, tmp: its locals (the snapshot it rendered,
\* the name of its temp file); thenReset: resetWatchers is to follow it;
\* atStart, atWrite: the output file as it was when generate() and when
\* atomicWrite was called, kept while the call lasts; duringFirst: the call
\* was made while run 1 was executing.
IdleRun ==
  [pc |-> "idle", snap |-> 0, tmp |-> 0, thenReset |-> FALSE,
   atStart |-> NoFile, atWrite |-> NoFile, duringFirst |-> FALSE]

\* A generate() call that has not yet reached the end of its try or its catch.
Executing(r) == runs[r].pc \notin {"idle", "done", "error"}

\* The call is inside fs.atomicWrite.
Writing(r) ==
  runs[r].pc \in {"aw_begin", "aw_write", "aw_move", "aw_rename", "aw_catch"}

\* ------------------------------------------------------------------------
\* resolveConfig (domain/config/resolver.ts)
\* ------------------------------------------------------------------------
\* A property of a JavaScript object that may be undefined, and an argument
\* that may be omitted.
None == [set |-> FALSE]

Some(v) == [set |-> TRUE, value |-> v]

\* a ?? b
Coalesce(a, b) == IF a.set THEN a.value ELSE b

\* BASE_CONFIG, its exclude list cut down as BaseExclude is.
BASE_CONFIG ==
  [outputFile |-> "PROJECT_STRUCTURE.md",
   include |-> <<>>,
   exclude |-> BaseExclude,
   languageMap |-> (".ts" :> "typescript") @@ (".md" :> "markdown"),
   regenerationDelay |-> 1500,
   maxFileSizeKb |-> 2048]

\* The patterns the lists of the configurations handed to resolveConfig hold.
ResolvePool ==
  { Pat(FALSE, "ext", <<"log">>), Pat(FALSE, "name", <<"pnpm-lock.yaml">>) }

ResolveLists == SeqsUpTo(ResolvePool, MaxResolveList)

\* Complete configurations: BASE_CONFIG and its variants in the two lists.
BaseConfigs ==
  { [BASE_CONFIG EXCEPT !.include = i, !.exclude = e] :
      i \in ResolveLists, e \in ResolveLists \cup {BaseExclude} }

\* What a user configuration may say besides its two lists.
UserScalars ==
  { [outputFile |-> None, languageMap |-> None,
     regenerationDelay |-> None, maxFileSizeKb |-> None],
    [outputFile |-> Some("SNAPSHOT.md"), languageMap |-> None,
     regenerationDelay |-> None, maxFileSizeKb |-> None],
    [outputFile |-> None, languageMap |-> None,
     regenerationDelay |-> Some(200), maxFileSizeKb |-> Some(0)],
    [outputFile |-> None, languageMap |-> Some((".ts" :> "ts") @@ (".log" :> "text")),
     regenerationDelay |-> None, maxFileSizeKb |-> None] }

OptionalLists == {None} \cup {Some(l) : l \in ResolveLists}

\* Partial<RepoScribeConfig>, or the argument left out.
UserConfigs ==
  {None} \cup
  { Some([outputFile |-> sc.outputFile, include |-> i, exclude |-> e,
          languageMap |-> sc.languageMap,
          regenerationDelay |-> sc.regenerationDelay,
          maxFileSizeKb |-> sc.maxFileSizeKb]) :
      sc \in UserScalars, i \in OptionalLists, e \in OptionalLists }

\* A variant that appends the user's patterns to the base list in place.
resolveConfig_pushInPlace(baseConfig, partial) ==
  IF ~partial.set
  THEN [resolved |-> baseConfig, base |-> baseConfig]
  ELSE LET u == partial.value
           combined == baseConfig.exclude \o Coalesce(u.exclude, <<>>)
       IN  [resolved |->
              [outputFile |-> Coalesce(u.outputFile, baseConfig.outputFile),
               include |-> Coalesce(u.include, baseConfig.include),
               exclude |-> combined,
               languageMap |-> Coalesce(u.languageMap, <<>>) @@ baseConfig.languageMap,
               regenerationDelay |->
                 Coalesce(u.regenerationDelay, baseConfig.regenerationDelay),
               maxFileSizeKb |-> Coalesce(u.maxFileSizeKb, baseConfig.maxFileSizeKb)],
            base |-> [baseConfig EXCEPT !.exclude = combined]]

\* resolveConfig: the object it returns and the base object as it leaves it.
\* An absent list is falsy and a present one (even empty) is not, so for the
\* lists `x || []` and `x ?? []` both are Coalesce.
resolveConfig(baseConfig, partial) ==
  IF ~partial.set
  THEN [resolved |-> baseConfig, base |-> baseConfig]
  ELSE LET u == partial.value
       IN  [resolved |->
              [outputFile |-> Coalesce(u.outputFile, baseConfig.outputFile),
               include |-> Coalesce(u.include, baseConfig.include),
               exclude |-> baseConfig.exclude \o Coalesce(u.exclude, <<>>),
               languageMap |-> Coalesce(u.languageMap, <<>>) @@ baseConfig.languageMap,
               regenerationDelay |->
                 Coalesce(u.regenerationDelay, baseConfig.regenerationDelay),
               maxFileSizeKb |-> Coalesce(u.maxFileSizeKb, baseConfig.maxFileSizeKb)],
            base |-> baseConfig]

\* ------------------------------------------------------------------------
\* ConfigurationService (application/ConfigurationService.ts)
\* ------------------------------------------------------------------------
ConfigCallers == 1..MaxConfigCalls

\* let userConfig: Partial<RepoScribeConfig> = {}
EmptyUserConfig ==
  Some([outputFile |-> None, include |-> None, exclude |-> None,
        languageMap |-> None, regenerationDelay |-> None, maxFileSizeKb |-> None])

\* What .reposcribe.config.js may export when require() of it succeeds.
FileConfigs ==
  { Some([EmptyUserConfig.value EXCEPT
            !.exclude = Some(<<Pat(FALSE, "ext", <<"log">>)>>)]),
    Some([EmptyUserConfig.value EXCEPT !.outputFile = Some("SNAPSHOT.md")]) }

\* The states of the configuration file.
ConfigFiles ==
  { [kind |-> "absent"], [kind |-> "malformed"] } \cup
  { [kind |-> "valid", config |-> u] : u \in FileConfigs }

\* { resolvedConfig, userConfig }
ConfigContext(partial) ==
  Some([resolvedConfig |-> resolveConfig(BASE_CONFIG, partial).resolved,
        userConfig |-> partial])

\* A getConfigContext() call that has not been made.
IdleCall ==
  [pc |-> "idle", found |-> FALSE, read |-> FALSE, loadFailed |-> FALSE,
   hit |-> FALSE, sharing |-> {}, result |-> None]

\* The callers whose load is in flight.
Loading == { d \in ConfigCallers : configCalls[d].pc \in {"find", "load"} }

\* A variant whose catch block rethrows.
OnLoadError_rethrow == [throws |-> TRUE, userConfig |-> EmptyUserConfig]

\* The catch block around require(): log, keep userConfig = {}.
OnLoadError == [throws |-> FALSE, userConfig |-> EmptyUserConfig]

\* Lines 42 to 64 for a caller whose findConfig gave `found`, the file being
\* `file` when require() runs.
loadUserConfig(found, file) ==
  IF ~found THEN [throws |-> FALSE, userConfig |-> EmptyUserConfig]
  ELSE IF file.kind = "valid" THEN [throws |-> FALSE, userConfig |-> file.config]
  ELSE OnLoadError

\* ------------------------------------------------------------------------
\* MarkdownBuilder (domain/markdown/MarkdownBuilder.ts).  The string build
\* returns is kept as the sequence of the parts it joins with '\n'; the tree
\* block is the sequence of its lines and a file's block is a record of the
\* strings that its template puts together. The box-drawing characters and
\* the dash of the title are written in ASCII, a backtick as an apostrophe.
\* ------------------------------------------------------------------------
\* path.extname of the names of PathPool.
extname(name) ==
  CASE name = "index.ts" -> ".ts"
    [] name = "helper.ts" -> ".ts"
    [] name = "readme.md" -> ".md"
    [] OTHER -> ""

\* One line of the tree block: the prefix (one entry for each level above),
\* the connector and the name, a directory's with '/' after it.
TreeLine(prefix, isLast, name, isDirectory) ==
  [kind |-> "tree", prefix |-> prefix,
   connector |-> IF isLast THEN "'-- " ELSE "|-- ",
   name |-> name, slash |-> isDirectory]

\* treeGenerator(node, prefix), from the child of index i on.
RECURSIVE treeGenerator(_, _, _, _)
treeGenerator(t, node, prefix, i) ==
  IF i > Len(t[node].children) THEN <<>>
  ELSE LET name == t[node].children[i]
           child == Append(node, name)
           isLast == i = Len(t[node].children)
           childPrefix == Append(prefix, IF isLast THEN "    " ELSE "|   ")
       IN  <<TreeLine(prefix, isLast, name, t[child].type = "directory")>> \o
           (IF t[child].type = "directory"
            THEN treeGenerator(t, child, childPrefix, 1)
            ELSE <<>>) \o
           treeGenerator(t, node, prefix, i + 1)

renderTree(t) ==
  <<[kind |-> "tree", prefix |-> <<>>, connector |-> "", name |-> "<root>",
     slash |-> TRUE]>> \o treeGenerator(t, <<>>, <<>>, 1)

\* renderFileContent
renderFileContent(filePath, content, languageMap) ==
  LET ext == extname(Last(filePath))
      language == IF ext \in DOMAIN languageMap THEN languageMap[ext] ELSE "plaintext"
  IN  [kind |-> "file", header |-> filePath, language |-> language,
       content |-> content]

\* A variant that yields the files of the node itself only.
RECURSIVE getFilesRecursive_noDescent(_, _, _)
getFilesRecursive_noDescent(t, node, i) ==
  IF i > Len(t[node].children) THEN <<>>
  ELSE LET child == Append(node, t[node].children[i])
       IN  (IF t[child].type = "file" THEN <<child>> ELSE <<>>) \o
           getFilesRecursive_noDescent(t, node, i + 1)

\* getFilesRecursive(node), from the child of index i on: the paths of the
\* file nodes it yields.
RECURSIVE getFilesRecursive(_, _, _)
getFilesRecursive(t, node, i) ==
  IF i > Len(t[node].children) THEN <<>>
  ELSE LET child == Append(node, t[node].children[i])
       IN  (IF t[child].type = "file"
            THEN <<child>>
            ELSE getFilesRecursive(t, child, 1)) \o
           getFilesRecursive(t, node, i + 1)

\* The loop of build over sortedFiles.
RECURSIVE fileBlocks(_, _, _, _)
fileBlocks(sortedFiles, fileContentsMap, languageMap, i) ==
  IF i > Len(sortedFiles) THEN <<>>
  ELSE (IF sortedFiles[i] \in DOMAIN fileContentsMap
        THEN <<renderFileContent(sortedFiles[i], fileContentsMap[sortedFiles[i]],
                                 languageMap)>>
        ELSE <<>>) \o
       fileBlocks(sortedFiles, fileContentsMap, languageMap, i + 1)

Text(line) == [kind |-> "text", text |-> line]

build(t, fileContentsMap, languageMap) ==
  <<Text("# RepoScribe - Project Snapshot"), Text(""),
    Text("## Project Tree"), Text(""), Text("'''")>> \o
  renderTree(t) \o
  <<Text("'''"), Text(""), Text("---"), Text(""),
    Text("## File Contents"), Text("")>> \o
  fileBlocks(getFilesRecursive(t, <<>>, 1), fileContentsMap, languageMap, 1)

\* What a task of stage 5 may store for a file.
ContentChoices == {"text of the file", "[Error reading file: EACCES]"}

\* ------------------------------------------------------------------------
\* The values of the variables of a specification that is not running
\* ------------------------------------------------------------------------
ScanOff ==
  /\ scanPc = "off"
  /\ gitignoreContent = <<>>
  /\ userConfig = [include |-> <<>>, exclude |-> <<>>]
  /\ finalFiles = <<>>

TreeOff ==
  /\ treePc = "off"
  /\ filePaths = <<>>
  /\ tree = EmptyTree

AsmOff ==
  /\ asmPc = "off"
  /\ maxFileSizeKb = 0
  /\ fileSize = <<>>
  /\ taskPc = <<>>
  /\ fileContents = <<>>
  /\ readCalls = {}
  /\ failed = {}

CoordOff ==
  /\ runs = [r \in Runs |-> IdleRun]
  /\ started = 0
  /\ workspace = 1
  /\ output = NoFile
  /\ tmpFiles = [n \in Runs |-> NoFile]
  /\ debounceArmed = FALSE
  /\ orphanTimers = 0
  /\ isPaused = TRUE
  /\ cachedContext = FALSE
  /\ gitignoreListsOutput = FALSE
  /\ gitignoreEvent = FALSE

ResolveOff ==
  /\ resolvePc = "off"
  /\ resolveArgs = [base |-> BASE_CONFIG, user |-> None]
  /\ baseObject = BASE_CONFIG
  /\ resolved = BASE_CONFIG

ConfigOff ==
  /\ configCalls = [c \in ConfigCallers |-> IdleCall]
  /\ contextCache = None
  /\ configFile = [kind |-> "absent"]
  /\ configEdits = 0
  /\ invalidated = FALSE

WatchOff ==
  /\ watchPc = "off"
  /\ now = 0
  /\ timerDue = 0
  /\ orphanDue = {}
  /\ watchLog = <<>>
  /\ resets = 0

PreFilterOff ==
  /\ preFilter = None
  /\ handled = None

RenderOff ==
  /\ renderPc = "off"
  /\ contentMap = <<>>
  /\ markdown = <<>>

PoolOff ==
  /\ poolPc = "off"
  /\ poolFiles = 0
  /\ poolStat = 0
  /\ poolRead = 0
  /\ poolSettled = 0

OutPathOff ==
  /\ outPc = "off"
  /\ outUserFile = None
  /\ outputFilePath = None

GenOff ==
  /\ genCalls = <<>>
  /\ genOn = FALSE

StartupOff ==
  /\ upPc = "off"
  /\ storedPauseState = "undefined"
  /\ wasNew = FALSE
  /\ activations = 0
  /\ cmdPaused = FALSE
  /\ watcherPaused = FALSE
  /\ upCache = "empty"
  /\ upArmed = FALSE
  /\ upRuns = <<>>

\* A slot without a run.
LoopIdle == [pc |-> "idle", out |-> "A", reset |-> FALSE]

LoopOff ==
  /\ lpOn = FALSE
  /\ lpRuns = [r \in 1..MaxLoopSlots |-> LoopIdle]
  /\ lpConfigOut = "A"
  /\ lpCache = "none"
  /\ lpWatchOut = "A"
  /\ lpWatchIgnore = {}
  /\ lpIncludeTmp = FALSE
  /\ lpIgnore = {}
  /\ lpEvents = {}
  /\ lpArmed = FALSE
  /\ lpOrphan = FALSE
  /\ lpTriggered = FALSE

RefreshIdle == [pc |-> "idle", by |-> "none", config |-> 0, git |-> 0]

RefreshOff == refreshState = "off"

GitOff == gitignoreState = "off"

OrderOff == orderState = "off"

ResetOff == resetState = "off"

IdleWorld ==
  [status |-> "IDLE", output |-> "absent", gitignoreListsOutput |-> FALSE,
   idleTimer |-> FALSE]

SelOff == selectionState = "off"

FourthOff == RefreshOff /\ GitOff /\ OrderOff /\ ResetOff /\ SelOff

PriorOff == PoolOff /\ OutPathOff /\ GenOff /\ StartupOff /\ LoopOff

ThirdOff == PriorOff /\ FourthOff

EarlierOff ==
  /\ ScanOff /\ TreeOff /\ AsmOff /\ CoordOff
  /\ ResolveOff /\ ConfigOff /\ WatchOff /\ PreFilterOff /\ RenderOff

LaterOff ==
  ResolveOff /\ ConfigOff /\ WatchOff /\ PreFilterOff /\ RenderOff /\ ThirdOff

\* ------------------------------------------------------------------------
\* SpecScan
\* ------------------------------------------------------------------------
InitScan ==
  /\ TreeOff /\ AsmOff /\ CoordOff /\ LaterOff
  /\ scanPc = "input"
  /\ gitignoreContent \in SeqsUpTo(ExcludePool, MaxGitignoreLines)
  /\ userConfig \in [include : SeqsUpTo(IncludePool, MaxIncludePatterns),
                     exclude : SeqsUpTo(ExcludePool, MaxExcludePatterns)]
  /\ finalFiles = <<>>

Scan ==
  /\ scanPc = "input"
  /\ scanPc' = "done"
  /\ finalFiles' = scan(allRelativeFiles, BaseExclude, userConfig, gitignoreContent)
  /\ UNCHANGED <<gitignoreContent, userConfig, treeVars, asmVars, coordVars, laterVars>>

NextScan == Scan

SpecScan == InitScan /\ [][NextScan]_vars

FinalSet == Range(finalFiles)

\* Some entry of the include list matches the path itself.
MatchesInclude(p) ==
  \E i \in 1..Len(userConfig.include) : Matches(userConfig.include[i], p, FALSE)

C4_UserExcludeIsFinal ==
  scanPc = "done" =>
    \A p \in Range(allRelativeFiles) :
      Ignores(userConfig.exclude, p) => p \notin FinalSet

\* C4 witness: a path removed by the built-in excludes, re-admitted by stage 4
\* and ignored by the user excludes.
C4_Witness ==
  /\ scanPc = "done"
  /\ \E p \in Range(allRelativeFiles) :
       /\ Ignores(BaseExclude, p)
       /\ p \in Range(filesAfterInclude(allRelativeFiles, gitignoreContent,
                                         BaseExclude, userConfig.include))
       /\ Ignores(userConfig.exclude, p)
       /\ p \notin FinalSet

\* C5: a path that gitignore does not ignore, that the built-in excludes
\* remove, that matches an include pattern and that no user exclude ignores is
\* in the list scan returns.
C5_IncludeOverride ==
  scanPc = "done" =>
    \A p \in Range(allRelativeFiles) :
      ( /\ ~Ignores(gitignoreContent, p)
        /\ Ignores(BaseExclude, p)
        /\ MatchesInclude(p)
        /\ ~Ignores(userConfig.exclude, p) ) => p \in FinalSet

\* ------------------------------------------------------------------------
\* SpecInclude: FileScanner.scan with include patterns for files that the
\* built-in excludes remove and for files that they leave
\* ------------------------------------------------------------------------
InitInclude ==
  /\ TreeOff /\ AsmOff /\ CoordOff /\ LaterOff
  /\ scanPc = "input"
  /\ gitignoreContent \in SeqsUpTo(ExcludePool, MaxGitignoreLines)
  /\ userConfig \in [include : SeqsUpTo(IncludePoolWide, MaxIncludePatterns),
                     exclude : SeqsUpTo(ExcludePool, MaxUserExcludes)]
  /\ finalFiles = <<>>

SpecInclude == InitInclude /\ [][NextScan]_vars

\* The stage-4 list of the scan.
Stage4 ==
  Range(filesAfterInclude(allRelativeFiles, gitignoreContent, BaseExclude,
                          userConfig.include))

\* Stage 4 put the path back: the built-in excludes had removed it.
Readmitted(p) ==
  /\ Len(userConfig.include) > 0
  /\ ~Ignores(gitignoreContent, p)
  /\ Ignores(BaseExclude, p)
  /\ ~Ignores(includePatterns(userConfig.include), p)

C28_NoDuplicates ==
  scanPc = "done" =>
    /\ \A i, j \in 1..Len(finalFiles) : i # j => finalFiles[i] # finalFiles[j]
    /\ FinalSet \subseteq Range(allRelativeFiles)

\* A scan whose list was put together from two survivors of stage 3 and
\* from a path stage 4 put back.
C28_Witness ==
  /\ scanPc = "done"
  /\ \E q \in FinalSet : Readmitted(q)
  /\ Len(finalFiles) >= 3

\* ------------------------------------------------------------------------
\* SpecTree
\* ------------------------------------------------------------------------
InitTree ==
  /\ ScanOff /\ AsmOff /\ CoordOff /\ LaterOff
  /\ treePc = "input"
  /\ filePaths \in {l \in SeqsUpTo(PathPool, MaxTreePaths) : IsFileList(l)}
  /\ tree = EmptyTree

BuildTree ==
  /\ treePc = "input"
  /\ treePc' = "done"
  /\ tree' = buildFileTree(filePaths)
  /\ UNCHANGED <<filePaths, scanVars, asmVars, coordVars, laterVars>>

NextTree == BuildTree

SpecTree == InitTree /\ [][NextTree]_vars

PermutationsOf(l) ==
  {[i \in 1..Len(l) |-> l[f[i]]] : f \in Permutations(1..Len(l))}

\* C8: the tree buildFileTree returns is the same for every permutation of
\* the list of file paths: same nodes, kinds, paths and child order.
C8_OrderIndependent ==
  treePc = "done" =>
    \A q \in PermutationsOf(filePaths) : buildFileTree(q) = tree

\* C8 witness: a tree built from a list whose insertion order is not the
\* sorted order, below the root as well as at the root.
C8_Witness ==
  /\ treePc = "done"
  /\ \E n \in DOMAIN tree :
       /\ n # <<>>
       /\ Len(tree[n].children) >= 2
       /\ tree[n].children # InsertAll(EmptyTree, filePaths, 1)[n].children
  /\ tree[<<>>].children # InsertAll(EmptyTree, filePaths, 1)[<<>>].children

\* C29: at every node of the tree buildFileTree returns, the children that
\* are directories come before those that are files, and within each kind the
\* names are in ascending order.
C29_SortedAtEveryDepth ==
  treePc = "done" =>
    \A n \in DOMAIN tree :
      \A i, j \in 1..Len(tree[n].children) :
        i < j =>
          LET a == tree[n].children[i]
              b == tree[n].children[j]
              ta == tree[Append(n, a)].type
              tb == tree[Append(n, b)].type
          IN  /\ ~(ta = "file" /\ tb = "directory")
              /\ ta = tb => NameRank(a) < NameRank(b)

\* A tree with a directory below the root that holds a directory and a file,
\* inserted in another order than the sorted one.
C29_Witness ==
  /\ treePc = "done"
  /\ \E n \in DOMAIN tree :
       /\ n # <<>>
       /\ \E a, b \in Range(tree[n].children) :
            /\ tree[Append(n, a)].type = "directory"
            /\ tree[Append(n, b)].type = "file"
       /\ tree[n].children # InsertAll(EmptyTree, filePaths, 1)[n].children

\* ------------------------------------------------------------------------
\* SpecInsert: buildFileTree on lists that may name a path more than once
\* ------------------------------------------------------------------------
\* No path of the list is a directory of another one (the paths are files of
\* one workspace).
NoFileIsDirectory(paths) ==
  \A i, j \in 1..Len(paths) :
    ~(Len(paths[i]) < Len(paths[j]) /\ Prefix(paths[j], Len(paths[i])) = paths[i])

InitInsert ==
  /\ ScanOff /\ AsmOff /\ CoordOff /\ LaterOff
  /\ treePc = "input"
  /\ filePaths \in {l \in SeqsUpTo(PathPool, MaxTreePaths) : NoFileIsDirectory(l)}
  /\ tree = EmptyTree

SpecInsert == InitInsert /\ [][NextTree]_vars

\* The list without the later occurrences of a path.
Dedup(paths) ==
  LET firstAt == {i \in 1..Len(paths) : \A j \in 1..(i - 1) : paths[j] # paths[i]}
      F[k \in 0..Len(paths)] ==
        IF k = 0 THEN <<>>
        ELSE IF k \in firstAt THEN Append(F[k - 1], paths[k]) ELSE F[k - 1]
  IN  F[Len(paths)]

\* C30: the file nodes of the tree are the distinct paths of the list, one
\* node each; every other node below the root is a directory that is a proper
\* prefix of a path of the list; no node has two children of one name, and
\* every node hangs below its parent; the tree is the one built from the list
\* without its repetitions.
C30_OneNodePerPath ==
  treePc = "done" =>
    /\ {n \in DOMAIN tree : tree[n].type = "file"} = Range(filePaths)
    /\ \A n \in DOMAIN tree :
         /\ (n # <<>> /\ tree[n].type = "directory") =>
              \E f \in Range(filePaths) :
                Len(n) < Len(f) /\ Prefix(f, Len(n)) = n
         /\ \A i, j \in 1..Len(tree[n].children) :
              i # j => tree[n].children[i] # tree[n].children[j]
         /\ \A c \in Range(tree[n].children) : Append(n, c) \in DOMAIN tree
         /\ n # <<>> => Last(n) \in Range(tree[Prefix(n, Len(n) - 1)].children)
    /\ tree = buildFileTree(Dedup(filePaths))

\* A tree built from a list that names one path twice and another path that
\* shares a directory with it.
C30_Witness ==
  /\ treePc = "done"
  /\ \E i, j, k \in 1..Len(filePaths) :
       /\ i # j /\ filePaths[i] = filePaths[j]
       /\ filePaths[k] # filePaths[i]
       /\ Len(filePaths[i]) > 1
       /\ filePaths[k][1] = filePaths[i][1]

\* ------------------------------------------------------------------------
\* SpecAssemble
\* ------------------------------------------------------------------------
InitAssemble ==
  /\ ScanOff /\ TreeOff /\ CoordOff /\ LaterOff
  /\ asmPc = "reading"
  /\ maxFileSizeKb \in 0..MaxLimitKb
  /\ fileSize \in [absoluteFilePaths -> SizeChoices]
  /\ taskPc = [f \in absoluteFilePaths |-> "stat"]
  /\ fileContents = <<>>
  /\ readCalls = {}
  /\ failed = {}

\* await this.fs.stat(filePath) returns; the size test follows in the same turn.
StatOk(f) ==
  /\ asmPc = "reading" /\ taskPc[f] = "stat"
  /\ IF ExceedsLimit(fileSize[f], maxFileSizeKb)
     THEN /\ fileContents' = (f :> OmittedMessage) @@ fileContents
          /\ taskPc' = [taskPc EXCEPT ![f] = "done"]
          /\ readCalls' = readCalls
     ELSE /\ taskPc' = [taskPc EXCEPT ![f] = "read"]
          /\ readCalls' = readCalls \cup {f}
          /\ fileContents' = fileContents
  /\ UNCHANGED <<asmPc, maxFileSizeKb, fileSize, failed, scanVars, treeVars, coordVars, laterVars>>

\* await this.fs.stat(filePath) throws.
StatFails(f, msg) ==
  /\ asmPc = "reading" /\ taskPc[f] = "stat"
  /\ LET r == OnTaskError(fileContents, f, msg)
     IN  /\ fileContents' = r.fileContents
         /\ asmPc' = IF r.rejected THEN "error" ELSE asmPc
  /\ taskPc' = [taskPc EXCEPT ![f] = "done"]
  /\ failed' = failed \cup {f}
  /\ UNCHANGED <<maxFileSizeKb, fileSize, readCalls, scanVars, treeVars, coordVars, laterVars>>

\* await this.fs.readFile(filePath) returns.
ReadOk(f) ==
  /\ asmPc = "reading" /\ taskPc[f] = "read"
  /\ fileContents' = (f :> ContentOf(f)) @@ fileContents
  /\ taskPc' = [taskPc EXCEPT ![f] = "done"]
  /\ UNCHANGED <<asmPc, maxFileSizeKb, fileSize, readCalls, failed, scanVars, treeVars, coordVars, laterVars>>

\* await this.fs.readFile(filePath) throws.
ReadFails(f, msg) ==
  /\ asmPc = "reading" /\ taskPc[f] = "read"
  /\ LET r == OnTaskError(fileContents, f, msg)
     IN  /\ fileContents' = r.fileContents
         /\ asmPc' = IF r.rejected THEN "error" ELSE asmPc
  /\ taskPc' = [taskPc EXCEPT ![f] = "done"]
  /\ failed' = failed \cup {f}
  /\ UNCHANGED <<maxFileSizeKb, fileSize, readCalls, scanVars, treeVars, coordVars, laterVars>>

\* Promise.all resolves: every task has returned; stage 6 follows.
AssembleDone ==
  /\ asmPc = "reading"
  /\ \A f \in absoluteFilePaths : taskPc[f] = "done"
  /\ asmPc' = "rendered"
  /\ UNCHANGED <<maxFileSizeKb, fileSize, taskPc, fileContents, readCalls, failed,
                 scanVars, treeVars, coordVars, laterVars>>

NextAssemble ==
  \/ \E f \in absoluteFilePaths : StatOk(f)
  \/ \E f \in absoluteFilePaths, msg \in ErrorCodes : StatFails(f, msg)
  \/ \E f \in absoluteFilePaths : ReadOk(f)
  \/ \E f \in absoluteFilePaths, msg \in ErrorCodes : ReadFails(f, msg)
  \/ AssembleDone

SpecAssemble == InitAssemble /\ [][NextAssemble]_vars

\* What the Map holds for f when nothing fails.
ExpectedContent(f) ==
  IF ExceedsLimit(fileSize[f], maxFileSizeKb) THEN OmittedMessage ELSE ContentOf(f)

\* C9: with a limit L = maxFileSizeKb * 1024 > 0 a file larger than L (L + 1)
\* gets the omitted placeholder and is never read; a file of exactly L bytes is
\* read and its content stored; with the limit 0 nothing is omitted.
C9_SizeLimit ==
  \A f \in absoluteFilePaths :
    LET L == maxFileSizeKb * BytesPerKb
    IN  /\ (maxFileSizeKb > 0 /\ fileSize[f] > L) => f \notin readCalls
        /\ (taskPc[f] = "done" /\ f \notin failed) =>
             /\ (maxFileSizeKb > 0 /\ fileSize[f] = L + 1) =>
                  fileContents[f] = OmittedMessage
             /\ (maxFileSizeKb > 0 /\ fileSize[f] = L) =>
                  (f \in readCalls /\ fileContents[f] = ContentOf(f))
             /\ maxFileSizeKb = 0 =>
                  (f \in readCalls /\ fileContents[f] = ContentOf(f))

\* C9 witness: one run with a limit, a file one byte over it that was omitted
\* and a file of exactly the limit that was read.
C9_Witness ==
  /\ asmPc = "rendered"
  /\ maxFileSizeKb > 0
  /\ \E f, g \in absoluteFilePaths :
       /\ fileSize[f] = maxFileSizeKb * BytesPerKb + 1
       /\ fileContents[f] = OmittedMessage
       /\ fileSize[g] = maxFileSizeKb * BytesPerKb
       /\ fileContents[g] = ContentOf(g)

\* C10: whatever files fail in stat or read, the batch is never rejected; every
\* finished task has stored exactly its own entry, an error placeholder for a
\* failing file and the failure-free value for every other file; and when the
\* run goes on to render, the Map has one entry per selected path.
C10_ErrorContainment ==
  /\ asmPc # "error"
  /\ \A f \in absoluteFilePaths :
       /\ f \in DOMAIN fileContents <=> taskPc[f] = "done"
       /\ (taskPc[f] = "done" /\ f \in failed) =>
            \E msg \in ErrorCodes : fileContents[f] = ErrorMessage(msg)
       /\ (taskPc[f] = "done" /\ f \notin failed) =>
            fileContents[f] = ExpectedContent(f)
  /\ asmPc = "rendered" => DOMAIN fileContents = absoluteFilePaths
  /\ (\A f \in absoluteFilePaths : taskPc[f] = "done") =>
       (asmPc = "rendered" \/ ENABLED AssembleDone)

\* C10 witness: a run that reached the render stage with a failing file and a
\* file that was read.
C10_Witness ==
  /\ asmPc = "rendered"
  /\ \E f, g \in absoluteFilePaths :
       /\ f \in failed
       /\ g \notin failed
       /\ fileContents[g] = ContentOf(g)

\* ------------------------------------------------------------------------
\* FileSystem.atomicWrite, as called by run r for the snapshot runs[r].snap
\* ------------------------------------------------------------------------
\* The catch block of generate(): the error is logged and shown; the locals of
\* the call are gone.
Fail(r) ==
  runs' = [runs EXCEPT ![r].pc = "error", ![r].snap = 0, ![r].tmp = 0,
                       ![r].atStart = NoFile, ![r].atWrite = NoFile]

\* getFsExtra() has resolved; tmpPath is named after Date.now() and
\* fse.outputFile is called. The name is the caller's own, or that of a call
\* that named its temp file in the same millisecond and whose outputFile is
\* still in flight.
AwBegin(r) ==
  /\ runs[r].pc = "aw_begin"
  /\ \E name \in {r} \cup {runs[q].tmp : q \in {x \in Runs : runs[x].pc = "aw_write"}} :
       runs' = [runs EXCEPT ![r].pc = "aw_write", ![r].tmp = name,
                            ![r].atWrite = output]
  /\ UNCHANGED <<started, workspace, output, tmpFiles, triggerVars, cachedContext,
                 gitignoreListsOutput, pureVars, laterVars>>

\* fse.outputFile(tmpPath, content) resolves; fse.move is called.
AwWriteOk(r) ==
  /\ runs[r].pc = "aw_write"
  /\ tmpFiles' = [tmpFiles EXCEPT ![runs[r].tmp] = File(runs[r].snap)]
  /\ runs' = [runs EXCEPT ![r].pc = "aw_move"]
  /\ UNCHANGED <<started, workspace, output, triggerVars, cachedContext,
                 gitignoreListsOutput, pureVars, laterVars>>

\* fse.outputFile rejects, before the temp file was opened or midway.
AwWriteFails(r) ==
  /\ runs[r].pc = "aw_write"
  /\ \E left \in {tmpFiles[runs[r].tmp], PartialFile(runs[r].snap)} :
       tmpFiles' = [tmpFiles EXCEPT ![runs[r].tmp] = left]
  /\ runs' = [runs EXCEPT ![r].pc = "aw_catch"]
  /\ UNCHANGED <<started, workspace, output, triggerVars, cachedContext,
                 gitignoreListsOutput, pureVars, laterVars>>

\* fse.move(tmpPath, filePath, {overwrite: true}), first half: the source is
\* stat'ed (a missing one throws) and, overwrite being set, the destination is
\* removed.
AwMoveRemove(r) ==
  /\ runs[r].pc = "aw_move"
  /\ IF tmpFiles[runs[r].tmp] = NoFile
     THEN /\ runs' = [runs EXCEPT ![r].pc = "aw_catch"]
          /\ output' = output
     ELSE /\ runs' = [runs EXCEPT ![r].pc = "aw_rename"]
          /\ output' = NoFile
  /\ UNCHANGED <<started, workspace, tmpFiles, triggerVars, cachedContext,
                 gitignoreListsOutput, pureVars, laterVars>>

\* The removal of the destination rejects (the file is locked or protected).
AwMoveRemoveFails(r) ==
  /\ runs[r].pc = "aw_move"
  /\ runs' = [runs EXCEPT ![r].pc = "aw_catch"]
  /\ UNCHANGED <<started, workspace, output, tmpFiles, triggerVars,
                 cachedContext, gitignoreListsOutput, pureVars, laterVars>>

\* fse.move, second half: the temp file is renamed to the destination; a temp
\* file that is gone by now makes the rename throw. atomicWrite returns and
\* fs.updateGitignore is called.
AwRename(r) ==
  /\ runs[r].pc = "aw_rename"
  /\ IF tmpFiles[runs[r].tmp] = NoFile
     THEN /\ runs' = [runs EXCEPT ![r].pc = "aw_catch"]
          /\ UNCHANGED <<output, tmpFiles, pureVars, laterVars>>
     ELSE /\ runs' = [runs EXCEPT ![r].pc = "ugit"]
          /\ output' = tmpFiles[runs[r].tmp]
          /\ tmpFiles' = [tmpFiles EXCEPT ![runs[r].tmp] = NoFile]
  /\ UNCHANGED <<started, workspace, triggerVars, cachedContext,
                 gitignoreListsOutput, pureVars, laterVars>>

\* The rename rejects.
AwRenameFails(r) ==
  /\ runs[r].pc = "aw_rename"
  /\ runs' = [runs EXCEPT ![r].pc = "aw_catch"]
  /\ UNCHANGED <<started, workspace, output, tmpFiles, triggerVars,
                 cachedContext, gitignoreListsOutput, pureVars, laterVars>>

\* The catch block of atomicWrite: the temp file is removed if it exists and
\* the error is thrown on, into the catch block of generate().
AwCatch(r) ==
  /\ runs[r].pc = "aw_catch"
  /\ tmpFiles' = [tmpFiles EXCEPT ![runs[r].tmp] = NoFile]
  /\ Fail(r)
  /\ UNCHANGED <<started, workspace, output, triggerVars, cachedContext,
                 gitignoreListsOutput, pureVars, laterVars>>

AtomicWriteStep(r) ==
  \/ AwBegin(r)
  \/ AwWriteOk(r)
  \/ AwWriteFails(r)
  \/ AwMoveRemove(r)
  \/ AwMoveRemoveFails(r)
  \/ AwRename(r)
  \/ AwRenameFails(r)
  \/ AwCatch(r)

\* ------------------------------------------------------------------------
\* SpecWrite: one caller, one atomicWrite call after the other
\* ------------------------------------------------------------------------
InitWrite ==
  /\ ScanOff /\ TreeOff /\ AsmOff /\ LaterOff
  /\ \E v \in WorkspaceVersions :
       runs = [r \in Runs |->
                 IF r = 1 THEN [IdleRun EXCEPT !.pc = "aw_begin", !.snap = v]
                          ELSE IdleRun]
  /\ started = 1
  /\ workspace = 1
  /\ output \in {NoFile} \cup {File(v) : v \in WorkspaceVersions}
  /\ tmpFiles = [n \in Runs |-> NoFile]
  /\ debounceArmed = FALSE
  /\ orphanTimers = 0
  /\ isPaused = TRUE
  /\ cachedContext = TRUE
  /\ gitignoreListsOutput = TRUE
  /\ gitignoreEvent = FALSE

\* The previous call has returned or thrown; the caller writes again.
WriteAgain ==
  /\ runs[1].pc \in {"ugit", "error"}
  /\ started < MaxRuns
  /\ started' = started + 1
  /\ \E v \in WorkspaceVersions :
       runs' = [runs EXCEPT ![1] = [IdleRun EXCEPT !.pc = "aw_begin", !.snap = v]]
  /\ UNCHANGED <<workspace, fileVars, triggerVars, cachedContext,
                 gitignoreListsOutput, pureVars, laterVars>>

NextWrite ==
  \/ AwBegin(1)
  \/ AwWriteOk(1)
  \/ AwWriteFails(1)
  \/ AwMoveRemove(1)
  \/ AwMoveRemoveFails(1)
  \/ AwRename(1)
  \/ AwRenameFails(1)
  \/ AwCatch(1)
  \/ WriteAgain

SpecWrite == InitWrite /\ [][NextWrite]_vars

\* The call of run 1 has returned / has thrown.
WriteReturned == runs[1].pc = "ugit"

WriteThrew == runs[1].pc = "error"

\* The call of run 1 has failed and is in its catch block.
WriteFailed == runs[1].pc = "aw_catch"

\* C7: atomicWrite is all-or-nothing: from the call on, the target holds at
\* every moment the complete content it had at the call or the complete new
\* content; when the write or the rename fails, the target is what it was at
\* the call, and once the call has thrown no temp file is left.
C7_AllOrNothing ==
  /\ runs[1].pc \in {"aw_write", "aw_move", "aw_rename", "aw_catch", "ugit"} =>
        output \in {runs[1].atWrite, File(runs[1].snap)}
  /\ WriteFailed => output = runs[1].atWrite
  /\ WriteThrew => \A n \in Runs : tmpFiles[n] = NoFile

\* ------------------------------------------------------------------------
\* GenerationCoordinator.generate(): the stages of run r around the write
\* ------------------------------------------------------------------------
\* The synchronous head of generate(): getConfigContext() is called. With the cache set the call resolves
\* without leaving the turn and .gitignore is read next; else findConfig is
\* awaited. Nothing looks at a run in progress: the call always starts one
\* (the two guards are the bounds of the model).
generate(thenReset) ==
  /\ started < MaxRuns
  /\ Cardinality({r \in Runs : Executing(r)}) < MaxConcurrent
  /\ started' = started + 1
  /\ runs' = [runs EXCEPT ![started + 1] =
       [pc |-> IF cachedContext' THEN "gitignore" ELSE "config",
        snap |-> 0, tmp |-> 0, thenReset |-> thenReset,
        atStart |-> output, atWrite |-> NoFile,
        duringFirst |-> Executing(1)]]

\* The end of the try block.
Succeed(r) ==
  runs' = [runs EXCEPT ![r].pc = "done", ![r].snap = 0, ![r].tmp = 0,
                       ![r].atStart = NoFile, ![r].atWrite = NoFile]

\* getConfigContext: findConfig resolves, the file is required (a failure of
\* that is caught there) and the context is cached.
ConfigLoaded(r) ==
  /\ runs[r].pc = "config"
  /\ cachedContext' = TRUE
  /\ runs' = [runs EXCEPT ![r].pc = "gitignore"]
  /\ UNCHANGED <<started, workspace, fileVars, triggerVars, gitignoreListsOutput, pureVars, laterVars>>

\* getConfigContext: findConfig rejects.
ConfigFails(r) ==
  /\ runs[r].pc = "config"
  /\ Fail(r)
  /\ UNCHANGED <<started, workspace, fileVars, triggerVars, cachedContext,
                 gitignoreListsOutput, pureVars, laterVars>>

\* Stage 2: the read of .gitignore resolves or rejects (caught); scan is called.
GitignoreRead(r) ==
  /\ runs[r].pc = "gitignore"
  /\ runs' = [runs EXCEPT ![r].pc = "scan"]
  /\ UNCHANGED <<started, workspace, fileVars, triggerVars, cachedContext,
                 gitignoreListsOutput, pureVars, laterVars>>

\* Stage 3: scan resolves with the files as they are now; the tree is built
\* and the stat/read tasks are started.
ScanOk(r) ==
  /\ runs[r].pc = "scan"
  /\ runs' = [runs EXCEPT ![r].pc = "read", ![r].snap = workspace]
  /\ UNCHANGED <<started, workspace, fileVars, triggerVars, cachedContext,
                 gitignoreListsOutput, pureVars, laterVars>>

\* Stage 3: scan rejects.
ScanFails(r) ==
  /\ runs[r].pc = "scan"
  /\ Fail(r)
  /\ UNCHANGED <<started, workspace, fileVars, triggerVars, cachedContext,
                 gitignoreListsOutput, pureVars, laterVars>>

\* Stages 5-7: Promise.all resolves (a task never rejects), the markdown is
\* built and atomicWrite is called.
ReadDone(r) ==
  /\ runs[r].pc = "read"
  /\ runs' = [runs EXCEPT ![r].pc = "aw_begin"]
  /\ UNCHANGED <<started, workspace, fileVars, triggerVars, cachedContext,
                 gitignoreListsOutput, pureVars, laterVars>>

\* Stage 8, updateGitignore: the read of .gitignore resolves (or the file is
\* not found). A listed output file ends the run in success; else the new
\* content is written.
UgRead(r) ==
  /\ runs[r].pc = "ugit"
  /\ IF gitignoreListsOutput
     THEN Succeed(r)
     ELSE /\ runs' = [runs EXCEPT ![r].pc = "ugit_write"]
  /\ UNCHANGED <<started, workspace, fileVars, triggerVars, cachedContext,
                 gitignoreListsOutput, pureVars, laterVars>>

\* updateGitignore: the read rejects with something other than FileNotFound.
UgReadFails(r) ==
  /\ runs[r].pc = "ugit"
  /\ Fail(r)
  /\ UNCHANGED <<started, workspace, fileVars, triggerVars, cachedContext,
                 gitignoreListsOutput, pureVars, laterVars>>

\* updateGitignore: the write resolves; the config watcher will see it.
UgWrite(r) ==
  /\ runs[r].pc = "ugit_write"
  /\ gitignoreListsOutput' = TRUE
  /\ gitignoreEvent' = TRUE
  /\ Succeed(r)
  /\ UNCHANGED <<started, workspace, fileVars, debounceArmed, orphanTimers,
                 isPaused, cachedContext, pureVars, laterVars>>

\* updateGitignore: the write rejects.
UgWriteFails(r) ==
  /\ runs[r].pc = "ugit_write"
  /\ Fail(r)
  /\ UNCHANGED <<started, workspace, fileVars, triggerVars, cachedContext,
                 gitignoreListsOutput, pureVars, laterVars>>

\* ------------------------------------------------------------------------
\* The triggers: WorkspaceWatcher and the commands
\* ------------------------------------------------------------------------
\* onGeneralChange for a change of a file that passes the pre-filter: unless
\* paused, the debounce timer is (re)started.
GeneralEvent ==
  /\ workspace < 1 + MaxWorkspaceChanges
  /\ workspace' = workspace + 1
  /\ debounceArmed' = (debounceArmed \/ ~isPaused)
  /\ UNCHANGED <<runs, started, fileVars, orphanTimers, isPaused, gitignoreEvent,
                 cachedContext, gitignoreListsOutput, pureVars, laterVars>>

\* A debounce timer fires: () => this.coordinator.generate(). It is the timer
\* of the current debounced function or the still pending one of a function
\* that resetWatchers has replaced.
DebounceFires ==
  /\ \E current \in BOOLEAN :
       IF current
       THEN /\ debounceArmed
            /\ debounceArmed' = FALSE
            /\ orphanTimers' = orphanTimers
       ELSE /\ orphanTimers > 0
            /\ orphanTimers' = orphanTimers - 1
            /\ debounceArmed' = debounceArmed
  /\ cachedContext' = cachedContext
  /\ generate(FALSE)
  /\ UNCHANGED <<workspace, fileVars, isPaused, gitignoreEvent,
                 gitignoreListsOutput, pureVars, laterVars>>

\* A variant of onConfigChange that does not call clearCache().
ConfigEvent_keepCache ==
  /\ ~isPaused
  /\ cachedContext' = cachedContext
  /\ generate(TRUE)
  /\ UNCHANGED <<workspace, fileVars, triggerVars, gitignoreListsOutput, pureVars, laterVars>>

\* onConfigChange, the user having changed .reposcribe.config.js or
\* .gitignore: unless paused, the cache is cleared and generate() called.
ConfigEvent ==
  /\ ~isPaused
  /\ cachedContext' = FALSE
  /\ generate(TRUE)
  /\ UNCHANGED <<workspace, fileVars, triggerVars, gitignoreListsOutput, pureVars, laterVars>>

\* onConfigChange for the write updateGitignore made.
GitignoreEvent ==
  /\ gitignoreEvent
  /\ gitignoreEvent' = FALSE
  /\ IF isPaused
     THEN UNCHANGED <<runs, started, cachedContext>>
     ELSE /\ cachedContext' = FALSE
          /\ generate(TRUE)
  /\ UNCHANGED <<workspace, fileVars, debounceArmed, orphanTimers, isPaused,
                 gitignoreListsOutput, pureVars, laterVars>>

\* generate().then(() => this.resetWatchers()) of onConfigChange: the config
\* is loaded if the cache is clear and a new debounced function replaces the
\* old one, whose pending timer stays as it is.
ResetWatchers(r) ==
  /\ runs[r].thenReset
  /\ runs[r].pc \in {"done", "error"}
  /\ runs' = [runs EXCEPT ![r].thenReset = FALSE]
  /\ cachedContext' = TRUE
  /\ debounceArmed' = FALSE
  /\ orphanTimers' = IF debounceArmed THEN orphanTimers + 1 ELSE orphanTimers
  /\ UNCHANGED <<started, workspace, fileVars, isPaused, gitignoreEvent,
                 gitignoreListsOutput, pureVars, laterVars>>

\* reposcribe.forceRebuild: the cache is cleared and generate() called.
ForceRebuild ==
  /\ cachedContext' = FALSE
  /\ generate(FALSE)
  /\ UNCHANGED <<workspace, fileVars, triggerVars, gitignoreListsOutput, pureVars, laterVars>>

\* reposcribe.toggleAutoGeneration: pausing shows PAUSED; resuming clears the
\* cache and calls generate().
ToggleAutoGeneration ==
  /\ isPaused' = ~isPaused
  /\ IF isPaused'
     THEN UNCHANGED <<runs, started, cachedContext>>
     ELSE /\ cachedContext' = FALSE
          /\ generate(FALSE)
  /\ UNCHANGED <<workspace, fileVars, debounceArmed, orphanTimers, gitignoreEvent,
                 gitignoreListsOutput, pureVars, laterVars>>

\* ------------------------------------------------------------------------
\* Spec: the extension after startup()
\* ------------------------------------------------------------------------
\* startup() ends with the watchers set up; unless paused (the default when
\* nothing is persisted), it has called generate() once.
Init ==
  /\ ScanOff /\ TreeOff /\ AsmOff /\ LaterOff
  /\ isPaused \in BOOLEAN
  /\ started = IF isPaused THEN 0 ELSE 1
  /\ cachedContext = TRUE
  /\ output \in {NoFile, File(1)}
  /\ runs = [r \in Runs |->
               IF r = 1 /\ ~isPaused
               THEN [IdleRun EXCEPT !.pc = "gitignore", !.atStart = output]
               ELSE IdleRun]
  /\ workspace = 1
  /\ tmpFiles = [n \in Runs |-> NoFile]
  /\ debounceArmed = FALSE
  /\ orphanTimers = 0
  /\ gitignoreListsOutput \in BOOLEAN
  /\ gitignoreEvent = FALSE

RunStep(r) ==
  \/ ConfigLoaded(r)
  \/ ConfigFails(r)
  \/ GitignoreRead(r)
  \/ ScanOk(r)
  \/ ScanFails(r)
  \/ ReadDone(r)
  \/ AtomicWriteStep(r)
  \/ UgRead(r)
  \/ UgReadFails(r)
  \/ UgWrite(r)
  \/ UgWriteFails(r)
  \/ ResetWatchers(r)

Next ==
  \/ \E r \in Runs : RunStep(r)
  \/ GeneralEvent
  \/ DebounceFires
  \/ ConfigEvent
  \/ GitignoreEvent
  \/ ForceRebuild
  \/ ToggleAutoGeneration

Spec == Init /\ [][Next]_vars

ExecutingRuns == {r \in Runs : Executing(r)}

\* No run is executing and nothing is pending that would start one.
Quiescent ==
  /\ ExecutingRuns = {}
  /\ ~debounceArmed /\ orphanTimers = 0 /\ ~gitignoreEvent

\* The generate() calls made while run 1 was executing.
CallsDuringFirst == {r \in 2..started : runs[r].duringFirst}

\* C1: at most one pipeline run is executing at any time, and two writes of
\* the output file are never in progress together.
C1_SingleFlight ==
  /\ Cardinality(ExecutingRuns) <= 1
  /\ Cardinality({r \in Runs : Writing(r)}) <= 1

\* C2: when n >= 1 triggers have arrived while a run was executing (and none
\* at another time), exactly one more run has been executed once all is
\* quiet, whatever n is: two runs in total.
C2_OneCatchUpRun ==
  ( /\ Quiescent
    /\ CallsDuringFirst # {}
    /\ CallsDuringFirst = 2..started ) => started = 2

\* C6: a run that ends in error, whichever stage failed, leaves the output
\* file as it was when the run started.
C6_ErrorLeavesOutput ==
  [][ \A r \in Runs :
        runs[r].pc # "error" /\ runs'[r].pc = "error" => output' = runs[r].atStart ]_vars

\* The generate() call made in this step, if any, is that of onConfigChange:
\* only there the call is followed by resetWatchers.
ConfigEventStarts(r) ==
  /\ runs[r].pc = "idle" /\ runs'[r].pc # "idle"
  /\ runs'[r].thenReset

\* C15: an event on .gitignore or the configuration file that arrives while
\* not paused clears the cache and calls generate() in the same step, whatever
\* the state of the debounce timers, which it leaves alone; the run it starts
\* finds the cache empty and gets its configuration from a load made after.
C15_ConfigEventImmediate ==
  [][\A r \in Runs :
       /\ ConfigEventStarts(r)
            => /\ ~isPaused
               /\ ~cachedContext'
               /\ runs'[r].pc = "config"
               /\ UNCHANGED <<debounceArmed, orphanTimers>>
       /\ (runs[r].pc = "config" /\ runs'[r].pc = "gitignore") => cachedContext']_vars

\* A run that a configuration event started while a debounce timer was
\* pending has loaded its configuration, the timer still pending.
C15_Witness ==
  \E r \in Runs :
    /\ runs[r].thenReset /\ runs[r].pc = "gitignore"
    /\ cachedContext /\ debounceArmed

\* The generate() call made in this step, if any, comes from the watcher: it
\* is that of onConfigChange or that of a debounce timer.
WatcherCalls ==
  /\ started' = started + 1
  /\ \/ runs'[started'].thenReset
     \/ debounceArmed /\ ~debounceArmed'
     \/ orphanTimers' < orphanTimers

\* C17: no generate() call comes from the watcher while it is paused, be it
\* for a general event, a configuration event or a debounce timer that runs
\* out during the pause; and pausing leaves the runs in progress as they are.
C17_PauseGate ==
  [][/\ WatcherCalls => ~isPaused
     /\ (~isPaused /\ isPaused') => \A r \in Runs : Executing(r) => runs'[r] = runs[r]]_vars

\* ------------------------------------------------------------------------
\* SpecResolve
\* ------------------------------------------------------------------------
InitResolve ==
  /\ ScanOff /\ TreeOff /\ AsmOff /\ CoordOff /\ ConfigOff /\ WatchOff /\ PreFilterOff /\ RenderOff
  /\ ThirdOff
  /\ resolvePc = "input"
  /\ resolveArgs \in [base : BaseConfigs, user : UserConfigs]
  /\ baseObject = resolveArgs.base
  /\ resolved = BASE_CONFIG

ResolveConfig ==
  /\ resolvePc = "input"
  /\ resolvePc' = "done"
  /\ LET r == resolveConfig(baseObject, resolveArgs.user)
     IN  /\ resolved' = r.resolved
         /\ baseObject' = r.base
  /\ UNCHANGED <<resolveArgs, pureVars, coordVars, configVars, watchVars, preFilterVars,
                 renderVars, thirdVars>>

NextResolve == ResolveConfig

SpecResolve == InitResolve /\ [][NextResolve]_vars

\* user.exclude and user.include as resolveConfig was given them, an absent
\* list and an omitted user configuration counting as empty.
UserExclude ==
  IF resolveArgs.user.set THEN Coalesce(resolveArgs.user.value.exclude, <<>>) ELSE <<>>

UserInclude ==
  IF resolveArgs.user.set THEN Coalesce(resolveArgs.user.value.include, <<>>) ELSE <<>>

\* C13: resolveConfig(base, user) yields exclude = base.exclude followed by
\* user.exclude, every entry of both kept in order, for every base and user
\* (an absent user.exclude is empty), and base.exclude is not modified.
C13_ExcludeConcatenated ==
  resolvePc = "done" =>
    /\ resolved.exclude = resolveArgs.base.exclude \o UserExclude
    /\ baseObject.exclude = resolveArgs.base.exclude

\* resolveConfig has concatenated two non-empty lists that differ.
C13_Witness ==
  /\ resolvePc = "done"
  /\ resolveArgs.base.exclude # <<>> /\ UserExclude # <<>>
  /\ resolveArgs.base.exclude # UserExclude
  /\ Len(resolved.exclude) = Len(resolveArgs.base.exclude) + Len(UserExclude)

InitConfig ==
  /\ ScanOff /\ TreeOff /\ AsmOff /\ CoordOff /\ ResolveOff /\ WatchOff /\ PreFilterOff /\ RenderOff
  /\ ThirdOff
  /\ configCalls = [c \in ConfigCallers |-> IdleCall]
  /\ contextCache = None
  /\ configFile \in ConfigFiles
  /\ configEdits = 0
  /\ invalidated = FALSE

otherThanConfig == <<pureVars, coordVars, resolveVars, watchVars, preFilterVars, renderVars, thirdVars>>

\* getConfigContext() up to its first await: the cache is returned, or
\* findConfig is called.
GetConfigContext(c) ==
  /\ configCalls[c].pc = "idle"
  /\ configCalls' =
       [configCalls EXCEPT ![c] =
          IF contextCache.set
          THEN [@ EXCEPT !.pc = "returned", !.hit = TRUE, !.result = contextCache]
          ELSE [@ EXCEPT !.pc = "find", !.sharing = Loading]]
  /\ UNCHANGED <<contextCache, configFile, configEdits, invalidated, otherThanConfig>>

\* findConfig looks for the file.
FindConfig(c) ==
  /\ configCalls[c].pc = "find"
  /\ configCalls' = [configCalls EXCEPT ![c].pc = "load",
                                        ![c].found = (configFile.kind # "absent")]
  /\ UNCHANGED <<contextCache, configFile, configEdits, invalidated, otherThanConfig>>

\* findConfig rejects: the await at line 39 is outside the try block.
FindConfigRejects(c) ==
  /\ configCalls[c].pc = "find"
  /\ configCalls' = [configCalls EXCEPT ![c].pc = "threw"]
  /\ UNCHANGED <<contextCache, configFile, configEdits, invalidated, otherThanConfig>>

\* The continuation of the await: require(), resolveConfig, the cache is set.
LoadConfig(c) ==
  /\ configCalls[c].pc = "load"
  /\ LET call == configCalls[c]
         loaded == loadUserConfig(call.found, configFile)
         context == ConfigContext(loaded.userConfig)
         after == [call EXCEPT !.read = call.found,
                               !.loadFailed = call.found /\ configFile.kind # "valid"]
     IN  IF loaded.throws
         THEN /\ configCalls' = [configCalls EXCEPT ![c] = [after EXCEPT !.pc = "threw"]]
              /\ UNCHANGED contextCache
         ELSE /\ configCalls' =
                   [configCalls EXCEPT ![c] =
                      [after EXCEPT !.pc = "returned", !.result = context]]
              /\ contextCache' = context
  /\ UNCHANGED <<configFile, configEdits, invalidated, otherThanConfig>>

\* clearCache(): this.cachedContext = null, whatever it held.
ClearCache ==
  /\ contextCache' = None
  /\ invalidated' = TRUE
  /\ UNCHANGED <<configCalls, configFile, configEdits, otherThanConfig>>

\* The user writes, breaks, repairs or deletes the configuration file.
EditConfigFile ==
  /\ configEdits < MaxConfigEdits
  /\ configEdits' = configEdits + 1
  /\ configFile' \in ConfigFiles \ {configFile}
  /\ invalidated' = FALSE
  /\ UNCHANGED <<configCalls, contextCache, otherThanConfig>>

NextConfig ==
  \/ \E c \in ConfigCallers :
       \/ GetConfigContext(c)
       \/ FindConfig(c)
       \/ FindConfigRejects(c)
       \/ LoadConfig(c)
  \/ ClearCache
  \/ EditConfigFile

SpecConfig == InitConfig /\ [][NextConfig]_vars

\* C11: a getConfigContext() call made while the cache is empty and a load is
\* in flight shares that load: it reads the configuration file not at all, and
\* it returns the same configuration as the call whose load it found in flight.
C11_ConfigSingleFlight ==
  \A c \in ConfigCallers : \A d \in configCalls[c].sharing :
    /\ ~configCalls[c].read
    /\ configCalls[c].pc = "returned" /\ configCalls[d].pc = "returned"
         => configCalls[c].result = configCalls[d].result

\* What the claim calls the fallback: the defaults, with an empty user config.
FallbackContext ==
  Some([resolvedConfig |-> BASE_CONFIG, userConfig |-> EmptyUserConfig])

C31_CachedUntilCleared ==
  [][/\ (contextCache.set /\ contextCache' # contextCache)
          => (~contextCache'.set /\ invalidated')
     /\ (invalidated' /\ configCalls' = configCalls /\ configFile' = configFile)
          => ~contextCache'.set
     /\ \A c \in ConfigCallers :
          (configCalls[c].pc = "idle" /\ configCalls'[c].pc # "idle")
            => IF contextCache.set
               THEN /\ configCalls'[c].pc = "returned"
                    /\ configCalls'[c].result = contextCache
                    /\ ~configCalls'[c].read
               ELSE configCalls'[c].pc = "find"]_vars

\* What a load that starts now puts into the cache.
CurrentContext ==
  ConfigContext(loadUserConfig(configFile.kind # "absent", configFile).userConfig)

\* C35: when clearCache() has been called since the configuration file last
\* changed and no getConfigContext() call is in flight, a cache that is set
\* holds the configuration of the file as it is now, that is, one read after
\* the invalidation.
C35_NoStaleRepopulation ==
  (invalidated /\ Loading = {} /\ contextCache.set)
    => contextCache = CurrentContext

\* ------------------------------------------------------------------------
\* SpecWatch: onGeneralChange, the debounced function, resetWatchers
\* ------------------------------------------------------------------------
\* Time starts at 1, so that 0 can stand for a timer that is not set.
InitWatch ==
  /\ ScanOff /\ TreeOff /\ AsmOff /\ CoordOff /\ ResolveOff /\ ConfigOff /\ PreFilterOff /\ RenderOff
  /\ ThirdOff
  /\ watchPc = "watching"
  /\ now = 1
  /\ timerDue = 0
  /\ orphanDue = {}
  /\ watchLog = <<>>
  /\ resets = 0

otherThanWatch == <<pureVars, coordVars, resolveVars, configVars, preFilterVars, renderVars, thirdVars>>

EventsLogged == SelectSeq(watchLog, LAMBDA e : e.kind = "event")

CallsLogged == SelectSeq(watchLog, LAMBDA e : e.kind = "generate")

\* Time passes; a timer runs out when it is due.
Tick ==
  /\ now < MaxTime
  /\ timerDue # now
  /\ now \notin orphanDue
  /\ now' = now + 1
  /\ UNCHANGED <<watchPc, timerDue, orphanDue, watchLog, resets, otherThanWatch>>

\* onGeneralChange: a dropped event (paused, the output file, a path the
\* pre-filter ignores) returns early; any other calls this.debouncedGenerate(),
\* which restarts the timer of that function. A timer that is due at this
\* tick has run out before the event arrives.
OnGeneralChange ==
  /\ watchPc = "watching"
  /\ timerDue # now /\ now \notin orphanDue
  /\ Len(EventsLogged) < MaxEvents
  /\ \E dropped \in BOOLEAN :
       IF dropped
       THEN UNCHANGED <<timerDue, watchLog>>
       ELSE /\ timerDue' = now + DebounceWait
            /\ watchLog' = Append(watchLog, [kind |-> "event", at |-> now])
  /\ UNCHANGED <<watchPc, now, orphanDue, resets, otherThanWatch>>

\* The timer of this.debouncedGenerate runs out: coordinator.generate().
DebouncedGenerate ==
  /\ timerDue = now
  /\ timerDue' = 0
  /\ watchLog' = Append(watchLog, [kind |-> "generate", at |-> now])
  /\ UNCHANGED <<watchPc, now, orphanDue, resets, otherThanWatch>>

\* The timer of a debounced function that resetWatchers replaced runs out.
ReplacedDebouncedGenerate ==
  /\ now \in orphanDue
  /\ orphanDue' = orphanDue \ {now}
  /\ watchLog' = Append(watchLog, [kind |-> "generate", at |-> now])
  /\ UNCHANGED <<watchPc, now, timerDue, resets, otherThanWatch>>

\* resetWatchers is called (after the run of a configuration event): the
\* watchers are disposed, getConfigContext() is awaited.
ResetDispose ==
  /\ watchPc = "watching"
  /\ resets < MaxResets
  /\ resets' = resets + 1
  /\ watchPc' = "disposed"
  /\ UNCHANGED <<now, timerDue, orphanDue, watchLog, otherThanWatch>>

\* this.debouncedGenerate = this.debounceFn(...): a new function, with no
\* timer; that of the old function stays. createPreFilter is awaited.
ResetDebounce ==
  /\ watchPc = "disposed"
  /\ watchPc' = "filter"
  /\ timerDue' = 0
  /\ orphanDue' = IF timerDue # 0 THEN orphanDue \cup {timerDue} ELSE orphanDue
  /\ UNCHANGED <<now, watchLog, resets, otherThanWatch>>

\* The new watchers are created and their handlers registered.
ResetWatch ==
  /\ watchPc = "filter"
  /\ watchPc' = "watching"
  /\ UNCHANGED <<now, timerDue, orphanDue, watchLog, resets, otherThanWatch>>

NextWatch ==
  \/ Tick
  \/ OnGeneralChange
  \/ DebouncedGenerate
  \/ ReplacedDebouncedGenerate
  \/ ResetDispose
  \/ ResetDebounce
  \/ ResetWatch

SpecWatch == InitWatch /\ [][NextWatch]_vars

\* The bursts of a sequence of event times: a new burst starts with an event
\* that comes a whole window or more after the one before.
NumBursts(events) ==
  IF events = <<>> THEN 0
  ELSE 1 + Cardinality({ i \in 2..Len(events) :
                           events[i].at - events[i - 1].at >= DebounceWait })

\* No timer is pending.
WatchQuiet == timerDue = 0 /\ orphanDue = {}

\* C16: the events that reach the debounced function give one generate()
\* call for each burst (consecutive events less than the window apart), and
\* every call comes a whole window or more after the last event before it.
C16_OneCallPerBurst ==
  /\ \A i \in 1..Len(watchLog) : \A j \in 1..(i - 1) :
       ( /\ watchLog[i].kind = "generate" /\ watchLog[j].kind = "event"
         /\ \A k \in (j + 1)..(i - 1) : watchLog[k].kind # "event" )
       => watchLog[i].at - watchLog[j].at >= DebounceWait
  /\ WatchQuiet => Len(CallsLogged) = NumBursts(EventsLogged)

\* ------------------------------------------------------------------------
\* SpecPreFilter: createPreFilter and FileScanner.scan on one configuration
\* ------------------------------------------------------------------------
\* The configuration getConfigContext() resolves from the user's two lists.
ResolvedOf(user) ==
  resolveConfig(BASE_CONFIG,
                Some([EmptyUserConfig.value EXCEPT
                        !.include = Some(user.include),
                        !.exclude = Some(user.exclude)])).resolved

\* createPreFilter: one ruleset of the lines of .gitignore, config.exclude
\* and, with a non-empty include list, '**/*' and the negated includes.
createPreFilter(config, gitignore) ==
  gitignore \o config.exclude \o
  (IF Len(config.include) > 0 THEN includePatterns(config.include) ELSE <<>>)

\* path.relative(workspaceRoot, path.join(workspaceRoot, config.outputFile))
relativeOutputFile == <<BASE_CONFIG.outputFile>>

\* The paths general events arrive for.
EventPaths == Range(allRelativeFiles) \cup {relativeOutputFile}

InitPreFilter ==
  /\ TreeOff /\ AsmOff /\ CoordOff /\ ResolveOff /\ ConfigOff /\ WatchOff /\ RenderOff
  /\ ThirdOff
  /\ scanPc = "input"
  /\ gitignoreContent \in SeqsUpTo(ExcludePool, MaxGitignoreLines)
  /\ userConfig \in [include : SeqsUpTo(IncludePool, MaxIncludePatterns),
                     exclude : SeqsUpTo(ExcludePool, MaxExcludePatterns)]
  /\ finalFiles = <<>>
  /\ preFilter = None
  /\ handled = None

\* resetWatchers: const preFilter = await this.createPreFilter(config)
CreatePreFilter ==
  /\ preFilter = None
  /\ preFilter' = Some(createPreFilter(ResolvedOf(userConfig), gitignoreContent))
  /\ UNCHANGED <<handled, pureVars, coordVars, resolveVars, configVars, watchVars, renderVars, thirdVars>>

\* onGeneralChange, not paused: the test of the output path and the pre-filter.
FilterGeneralEvent ==
  /\ preFilter # None
  /\ \E p \in EventPaths :
       handled' = Some([path |-> p,
                        dropped |-> p = relativeOutputFile \/ Ignores(preFilter.value, p)])
  /\ UNCHANGED <<preFilter, pureVars, coordVars, resolveVars, configVars, watchVars, renderVars, thirdVars>>

NextPreFilter ==
  \/ Scan
  \/ CreatePreFilter
  \/ FilterGeneralEvent

SpecPreFilter == InitPreFilter /\ [][NextPreFilter]_vars

\* C18: a general event that the watcher drops is for the output file or for
\* a path that scan, given the same configuration and .gitignore, leaves out
\* of the list it returns; no event for a file of that list is dropped.
C18_PreFilterSound ==
  (scanPc = "done" /\ handled # None /\ handled.value.dropped)
    => \/ handled.value.path = relativeOutputFile
       \/ handled.value.path \notin FinalSet

\* ------------------------------------------------------------------------
\* SpecRender: stages 4 to 6 of generate() on the list a scan returned
\* ------------------------------------------------------------------------
InitRender ==
  /\ ScanOff /\ AsmOff /\ CoordOff
  /\ ResolveOff /\ ConfigOff /\ WatchOff /\ PreFilterOff /\ ThirdOff
  /\ treePc = "input"
  /\ filePaths \in {l \in SeqsUpTo(PathPool, MaxTreePaths) : IsFileList(l)}
  /\ tree = EmptyTree
  /\ renderPc = "scanned"
  /\ contentMap = <<>>
  /\ markdown = <<>>

otherThanRender ==
  <<pureVars, coordVars, resolveVars, configVars, watchVars, preFilterVars,
    thirdVars>>

\* Stage 5: every task stores the content or a placeholder under the
\* relative path of its file.
ReadContents ==
  /\ treePc = "done"
  /\ renderPc = "scanned"
  /\ renderPc' = "read"
  /\ contentMap' \in [Range(filePaths) -> ContentChoices]
  /\ UNCHANGED <<markdown, otherThanRender>>

\* Stage 6: markdownBuilder.build(tree, fileContents, finalConfig.languageMap)
Build ==
  /\ renderPc = "read"
  /\ renderPc' = "built"
  /\ markdown' = build(tree, contentMap, BASE_CONFIG.languageMap)
  /\ UNCHANGED <<contentMap, otherThanRender>>

NextRender ==
  \/ BuildTree
  \/ ReadContents
  \/ Build

SpecRender == InitRender /\ [][NextRender]_vars

\* The lines of the tree block below '<root>/' and the file blocks.
TreeBlock ==
  SelectSeq(markdown, LAMBDA part : part.kind = "tree" /\ part.connector # "")

FileBlocks == SelectSeq(markdown, LAMBDA part : part.kind = "file")

\* The path a line of the tree block stands for, read off the block: its
\* name under the path of the nearest line above that is one level higher.
RECURSIVE PathOfLine(_, _)
PathOfLine(lines, i) ==
  IF lines[i].prefix = <<>> THEN <<lines[i].name>>
  ELSE LET above == { j \in 1..(i - 1) :
                        Len(lines[j].prefix) = Len(lines[i].prefix) - 1 }
           parent == CHOOSE j \in above : \A k \in above : k <= j
       IN  Append(PathOfLine(lines, parent), lines[i].name)

\* The files of the tree block, in the order of their lines.
FilesOfTreeBlock ==
  LET fileLines == { i \in 1..Len(TreeBlock) : ~TreeBlock[i].slash }
      Nth[k \in 0..Cardinality(fileLines)] ==
        IF k = 0 THEN 0
        ELSE CHOOSE i \in fileLines : i > Nth[k - 1] /\
               \A j \in fileLines : j > Nth[k - 1] => i <= j
  IN  [k \in 1..Cardinality(fileLines) |-> PathOfLine(TreeBlock, Nth[k])]

\* C20: the output has one file block for each file of the tree block, in
\* the order of the tree block; in a run these are the paths of the final
\* set, each once, each with what the content map holds for it.
C20_OneSectionPerFile ==
  renderPc = "built" =>
    /\ [i \in 1..Len(FileBlocks) |-> FileBlocks[i].header] = FilesOfTreeBlock
    /\ Len(FileBlocks) = Len(filePaths)
    /\ \A p \in Range(filePaths) :
         Cardinality({ i \in 1..Len(FileBlocks) : FileBlocks[i].header = p }) = 1
    /\ \A i \in 1..Len(FileBlocks) :
         FileBlocks[i].content = contentMap[FileBlocks[i].header]

\* Built from files at the root and in two directories, one inside the other.
C20_Witness ==
  /\ renderPc = "built"
  /\ Len(FileBlocks) = MaxTreePaths
  /\ \E i, j, k \in 1..Len(FileBlocks) :
       /\ Len(FileBlocks[i].header) = 1
       /\ Len(FileBlocks[j].header) = 2
       /\ Len(FileBlocks[k].header) = 3

\* ------------------------------------------------------------------------
\* SpecPool: stage 5 of generate(), counting the operations in flight
\* ------------------------------------------------------------------------
otherThanPool == <<earlierVars, outPathVars, genVars, startupVars, loopVars, fourthVars>>

InitPool ==
  /\ EarlierOff /\ OutPathOff /\ GenOff /\ StartupOff /\ LoopOff /\ FourthOff
  /\ poolPc = "scanned"
  /\ poolFiles \in 0..MaxPoolFiles
  /\ poolStat = 0
  /\ poolRead = 0
  /\ poolSettled = 0

\* absoluteFilePaths.map(async ...): every callback runs to its first await,
\* the fs.stat call, before Promise.all is awaited.
PoolStart ==
  /\ poolPc = "scanned"
  /\ poolPc' = "reading"
  /\ poolStat' = poolFiles
  /\ UNCHANGED <<poolFiles, poolRead, poolSettled, otherThanPool>>

\* A stat resolves with a size within the limit: fs.readFile is called.
PoolStatThenRead ==
  /\ poolPc = "reading"
  /\ poolStat > 0
  /\ poolStat' = poolStat - 1
  /\ poolRead' = poolRead + 1
  /\ UNCHANGED <<poolPc, poolFiles, poolSettled, otherThanPool>>

\* A stat rejects, or resolves with a size over the limit: the placeholder is
\* stored and the task returns.
PoolStatThenReturn ==
  /\ poolPc = "reading"
  /\ poolStat > 0
  /\ poolStat' = poolStat - 1
  /\ poolSettled' = poolSettled + 1
  /\ UNCHANGED <<poolPc, poolFiles, poolRead, otherThanPool>>

\* A read resolves or rejects: content or placeholder is stored.
PoolReadReturns ==
  /\ poolPc = "reading"
  /\ poolRead > 0
  /\ poolRead' = poolRead - 1
  /\ poolSettled' = poolSettled + 1
  /\ UNCHANGED <<poolPc, poolFiles, poolStat, otherThanPool>>

\* Promise.all resolves.
PoolResolved ==
  /\ poolPc = "reading"
  /\ poolSettled = poolFiles
  /\ poolPc' = "resolved"
  /\ UNCHANGED <<poolFiles, poolStat, poolRead, poolSettled, otherThanPool>>

NextPool ==
  \/ PoolStart
  \/ PoolStatThenRead
  \/ PoolStatThenReturn
  \/ PoolReadReturns
  \/ PoolResolved

SpecPool == InitPool /\ [][NextPool]_vars

\* C21: during content assembly the stat and read operations in flight are
\* never more than the width of the worker pool.
C21_BoundedInFlight == poolStat + poolRead <= WorkerPoolWidth

\* ------------------------------------------------------------------------
\* SpecOutputPath: path.join(workspaceRoot, finalConfig.outputFile)
\* ------------------------------------------------------------------------
\* A path is its segments and whether it starts with a separator.
Path(absolute, parts) == [absolute |-> absolute, parts |-> parts]

workspaceRoot == Path(TRUE, <<"ws">>)

OutputSegments == {"..", "docs", "out.md"}

\* What a user configuration can give as outputFile.
OutputFiles ==
  { Path(a, l) : a \in BOOLEAN,
                 l \in SeqsUpTo(OutputSegments, MaxOutputSegments) \ {<<>>} }

\* path.normalize on the segments: ".." removes the segment before it; at the
\* root of an absolute path it is dropped, at the start of a relative one kept.
RECURSIVE normalizeParts(_, _, _)
normalizeParts(absolute, done, rest) ==
  IF rest = <<>> THEN done
  ELSE IF rest[1] = ".."
       THEN IF done # <<>> /\ Last(done) # ".."
            THEN normalizeParts(absolute, SubSeq(done, 1, Len(done) - 1), Tail(rest))
            ELSE IF absolute
                 THEN normalizeParts(absolute, done, Tail(rest))
                 ELSE normalizeParts(absolute, Append(done, ".."), Tail(rest))
       ELSE normalizeParts(absolute, Append(done, rest[1]), Tail(rest))

\* path.join(a, b): the two are joined with a separator, whatever b starts
\* with, and the result is normalized.
join(a, b) == Path(a.absolute, normalizeParts(a.absolute, <<>>, a.parts \o b.parts))

\* p is below the directory root.
IsInside(root, p) ==
  /\ p.absolute = root.absolute
  /\ Len(p.parts) > Len(root.parts)
  /\ Prefix(p.parts, Len(root.parts)) = root.parts

InitOutputPath ==
  /\ EarlierOff /\ PoolOff /\ GenOff /\ StartupOff /\ LoopOff /\ FourthOff
  /\ outPc = "config"
  /\ outUserFile \in {None} \cup {Some(f) : f \in OutputFiles}
  /\ outputFilePath = None

otherThanOutPath == <<earlierVars, poolVars, genVars, startupVars, loopVars, fourthVars>>

\* resolveConfig: outputFile: userConfig.outputFile ?? baseConfig.outputFile;
\* stage 7 of generate() joins it to the workspace root.
JoinOutputPath ==
  /\ outPc = "config"
  /\ outPc' = "resolved"
  /\ outputFilePath' =
       Some(join(workspaceRoot,
                 Coalesce(outUserFile, Path(FALSE, <<BASE_CONFIG.outputFile>>))))
  /\ UNCHANGED <<outUserFile, otherThanOutPath>>

\* await this.fs.atomicWrite(outputFilePath, markdownContent)
WriteOutput ==
  /\ outPc = "resolved"
  /\ outPc' = "written"
  /\ UNCHANGED <<outUserFile, outputFilePath, otherThanOutPath>>

NextOutputPath == JoinOutputPath \/ WriteOutput

SpecOutputPath == InitOutputPath /\ [][NextOutputPath]_vars

\* C24: the path a run writes its output to is inside the project root.
C24_OutputInsideRoot ==
  outPc = "written" => IsInside(workspaceRoot, outputFilePath.value)

\* ------------------------------------------------------------------------
\* SpecGenerate: the try block of generate() and its catch
\* ------------------------------------------------------------------------
\* The awaited or called steps of the try block, in order.
Stages ==
  <<"config", "gitignore", "scan", "tree", "assemble", "render", "write", "ugit">>

\* The read of .gitignore has a try/catch of its own with an empty handler.
CanThrow == Range(Stages) \ {"gitignore"}

StageIndex(stage) == CHOOSE i \in 1..Len(Stages) : Stages[i] = stage

\* The catch block with a throw in place of the status update.
OnStageError_rethrow ==
  [pc |-> "rejected", shown |-> "GENERATING", reports |-> <<>>, settled |-> "rejected"]

\* The catch block of generate(): the error is logged and the status set; the
\* function returns, so its promise resolves.
OnStageError ==
  [pc |-> "error", shown |-> "ERROR", reports |-> <<"ERROR">>, settled |-> "resolved"]

InitGenerate ==
  /\ EarlierOff /\ PoolOff /\ OutPathOff /\ StartupOff /\ LoopOff /\ FourthOff
  /\ genCalls = <<>>
  /\ genOn = TRUE

otherThanGenerate == <<earlierVars, poolVars, outPathVars, startupVars, loopVars, fourthVars>>

\* A trigger calls generate(): the timer is cleared, the try block is entered
\* and the status set; nothing looks at the calls before.  reports is the
\* list of the ui.updateStatus calls of this call of generate().
Generate ==
  /\ genOn
  /\ Len(genCalls) < MaxGenerateCalls
  /\ genCalls' = Append(genCalls,
       [pc |-> Stages[1], ran |-> {}, shown |-> "GENERATING",
        reports |-> <<"GENERATING">>, threwAt |-> "", settled |-> "pending"])
  /\ UNCHANGED <<genOn, otherThanGenerate>>

\* The stage a call is at completes; after the last one the status is set to
\* UPDATED and the function returns.
StageCompletes(r) ==
  /\ genCalls[r].pc \in Range(Stages)
  /\ LET i == StageIndex(genCalls[r].pc)
     IN  genCalls' = [genCalls EXCEPT
           ![r].ran = @ \cup {genCalls[r].pc},
           ![r].pc = IF i < Len(Stages) THEN Stages[i + 1] ELSE "done",
           ![r].shown = IF i < Len(Stages) THEN @ ELSE "UPDATED",
           ![r].reports = IF i < Len(Stages) THEN @ ELSE Append(@, "UPDATED"),
           ![r].settled = IF i < Len(Stages) THEN @ ELSE "resolved"]
  /\ UNCHANGED <<genOn, otherThanGenerate>>

\* The stage a call is at throws or rejects: control goes to the catch block.
StageThrows(r) ==
  /\ genCalls[r].pc \in CanThrow
  /\ genCalls' = [genCalls EXCEPT
       ![r].threwAt = genCalls[r].pc,
       ![r].pc = OnStageError.pc,
       ![r].shown = OnStageError.shown,
       ![r].reports = @ \o OnStageError.reports,
       ![r].settled = OnStageError.settled]
  /\ UNCHANGED <<genOn, otherThanGenerate>>

NextGenerate ==
  \/ Generate
  \/ \E r \in 1..Len(genCalls) : StageCompletes(r)
  \/ \E r \in 1..Len(genCalls) : StageThrows(r)

SpecGenerate == InitGenerate /\ [][NextGenerate]_vars

C33_OneTerminalStatus ==
  \A r \in 1..Len(genCalls) :
    LET call == genCalls[r]
    IN  /\ call.reports[1] = "GENERATING"
        /\ call.settled = "pending" => call.reports = <<"GENERATING">>
        /\ call.settled # "pending" =>
             call.reports =
               <<"GENERATING", IF call.threwAt = "" THEN "UPDATED" ELSE "ERROR">>

\* One call has ended with UPDATED and another with ERROR, and a third is
\* still running.
C33_Witness ==
  \E a, b, c \in 1..Len(genCalls) :
    /\ genCalls[a].reports = <<"GENERATING", "UPDATED">>
    /\ genCalls[b].reports = <<"GENERATING", "ERROR">>
    /\ genCalls[c].settled = "pending" /\ genCalls[c].ran # {}

\* ------------------------------------------------------------------------
\* SpecStartup: activate(), the pause state and the commands that change it
\* ------------------------------------------------------------------------
\* A variant of the choice below that starts a new workspace running.
startPaused_defaultRunning(stored) ==
  IF stored = "undefined" THEN FALSE ELSE stored = "true"

\* isFirstRun = storedPauseState === undefined; startPaused is true for a
\* first run and the stored value else.
startPaused(stored) ==
  IF stored = "undefined" THEN TRUE ELSE stored = "true"

InitStartup ==
  /\ EarlierOff /\ PoolOff /\ OutPathOff /\ GenOff /\ LoopOff /\ FourthOff
  /\ upPc = "inactive"
  /\ storedPauseState \in {"undefined", "true", "false"}
  /\ wasNew = (storedPauseState = "undefined")
  /\ activations = 0
  /\ cmdPaused = FALSE
  /\ watcherPaused = FALSE
  /\ upCache = "empty"
  /\ upArmed = FALSE
  /\ upRuns = <<>>

otherThanStartup == <<earlierVars, poolVars, outPathVars, genVars, loopVars, fourthVars>>

\* coordinator.generate() called by `by`: the call reads the config cache.
upGenerate(by, cache) == Append(upRuns, [by |-> by, cache |-> cache])

\* activate(): the stored state is read, the command registry, the watcher
\* and the UI are given it, watcher.initialize() loads the configuration, and
\* generate() is called unless paused.
Activate ==
  /\ upPc = "inactive"
  /\ activations < MaxActivations
  /\ Len(upRuns) < MaxStartupRuns
  /\ upPc' = "active"
  /\ activations' = activations + 1
  /\ cmdPaused' = startPaused(storedPauseState)
  /\ watcherPaused' = startPaused(storedPauseState)
  /\ upCache' = "loaded"
  /\ upRuns' = IF startPaused(storedPauseState) THEN upRuns
               ELSE upGenerate("startup", "loaded")
  /\ UNCHANGED <<storedPauseState, wasNew, upArmed, otherThanStartup>>

\* The window is closed: the extension's objects and timers are gone, the
\* workspace state stays.
Deactivate ==
  /\ upPc = "active"
  /\ upPc' = "inactive"
  /\ cmdPaused' = FALSE
  /\ watcherPaused' = FALSE
  /\ upCache' = "empty"
  /\ upArmed' = FALSE
  /\ UNCHANGED <<storedPauseState, wasNew, activations, upRuns, otherThanStartup>>

\* reposcribe.toggleAutoGeneration
UpToggle ==
  /\ upPc = "active"
  /\ Len(upRuns) < MaxStartupRuns
  /\ cmdPaused' = ~cmdPaused
  /\ storedPauseState' = IF cmdPaused' THEN "true" ELSE "false"
  /\ watcherPaused' = cmdPaused'
  /\ IF cmdPaused'
     THEN UNCHANGED <<upCache, upRuns>>
     ELSE /\ upCache' = "empty"
          /\ upRuns' = upGenerate("resume", "empty")
  /\ UNCHANGED <<upPc, wasNew, activations, upArmed, otherThanStartup>>

\* reposcribe.forceRebuild
UpForceRebuild ==
  /\ upPc = "active"
  /\ Len(upRuns) < MaxStartupRuns
  /\ upCache' = "empty"
  /\ upRuns' = upGenerate("force", "empty")
  /\ UNCHANGED <<upPc, storedPauseState, wasNew, activations, cmdPaused,
                 watcherPaused, upArmed, otherThanStartup>>

\* A getConfigContext call of a run (or of resetWatchers) completes its load.
UpLoadConfig ==
  /\ upPc = "active"
  /\ upCache = "empty"
  /\ upCache' = "loaded"
  /\ UNCHANGED <<upPc, storedPauseState, wasNew, activations, cmdPaused,
                 watcherPaused, upArmed, upRuns, otherThanStartup>>

\* onGeneralChange for a file of the snapshot: dropped when paused, else the
\* debounced function is called.
UpGeneralEvent ==
  /\ upPc = "active"
  /\ upArmed' = (upArmed \/ ~watcherPaused)
  /\ UNCHANGED <<upPc, storedPauseState, wasNew, activations, cmdPaused,
                 watcherPaused, upCache, upRuns, otherThanStartup>>

\* The timer of the debounced function runs out.
UpDebounceFires ==
  /\ upPc = "active"
  /\ upArmed
  /\ Len(upRuns) < MaxStartupRuns
  /\ upArmed' = FALSE
  /\ upRuns' = upGenerate("watcher", upCache)
  /\ UNCHANGED <<upPc, storedPauseState, wasNew, activations, cmdPaused,
                 watcherPaused, upCache, otherThanStartup>>

\* onConfigChange: dropped when paused, else the cache is cleared and
\* generate() called.
UpConfigEvent ==
  /\ upPc = "active"
  /\ Len(upRuns) < MaxStartupRuns
  /\ IF watcherPaused
     THEN UNCHANGED <<upCache, upRuns>>
     ELSE /\ upCache' = "empty"
          /\ upRuns' = upGenerate("watcher", "empty")
  /\ UNCHANGED <<upPc, storedPauseState, wasNew, activations, cmdPaused,
                 watcherPaused, upArmed, otherThanStartup>>

NextStartup ==
  \/ Activate
  \/ Deactivate
  \/ UpToggle
  \/ UpForceRebuild
  \/ UpLoadConfig
  \/ UpGeneralEvent
  \/ UpDebounceFires
  \/ UpConfigEvent

SpecStartup == InitStartup /\ [][NextStartup]_vars

OutputNames == {"A", "B"}

\* The paths file events are about: the temp file of atomicWrite, the output
\* files, .gitignore, the configuration file and a source file.
LoopPaths == {"tmp", ".gitignore", "config", "src"} \cup OutputNames

LoopSlots == 1..MaxLoopSlots

\* preFilter.ignores(path) of the filter made at the last resetWatchers: the
\* lines of .gitignore, config.exclude with its '**/*.tmp', and, for a
\* non-empty include list, '**/*' followed by the negated include patterns.
lpPreFilterIgnores(path) ==
  IF lpIncludeTmp
  THEN path # "tmp"
  ELSE path = "tmp" \/ path \in lpWatchIgnore

InitLoop ==
  /\ EarlierOff /\ PoolOff /\ OutPathOff /\ GenOff /\ StartupOff /\ FourthOff
  /\ lpOn = TRUE
  /\ lpRuns = [r \in LoopSlots |-> LoopIdle]
  /\ lpConfigOut = "A"
  /\ lpCache = "A"
  /\ lpWatchOut = "A"
  /\ lpIgnore \in {{}, {"A"}}
  /\ lpWatchIgnore = lpIgnore
  /\ lpIncludeTmp \in BOOLEAN
  /\ lpEvents = {}
  /\ lpArmed = FALSE
  /\ lpOrphan = FALSE
  /\ lpTriggered = FALSE

otherThanLoop == <<earlierVars, poolVars, outPathVars, genVars, startupVars, fourthVars>>

FreeSlots == {r \in LoopSlots : lpRuns[r].pc = "idle"}

\* generate(): getConfigContext gives the cached configuration or loads the
\* file; the run goes on to its write with that outputFile.
LoopGenerate(cache, reset) ==
  /\ FreeSlots # {}
  /\ LET r == CHOOSE x \in FreeSlots : \A y \in FreeSlots : x <= y
         out == IF cache = "none" THEN lpConfigOut ELSE cache
     IN  /\ lpRuns' = [lpRuns EXCEPT ![r] = [pc |-> "tmp", out |-> out, reset |-> reset]]
         /\ lpCache' = out

\* The one outside trigger: a source file is saved.
TriggerFileChange ==
  /\ lpOn /\ ~lpTriggered
  /\ lpTriggered' = TRUE
  /\ lpEvents' = lpEvents \cup {"src"}
  /\ UNCHANGED <<lpOn, lpRuns, lpConfigOut, lpCache, lpWatchOut, lpWatchIgnore,
                 lpIncludeTmp, lpIgnore, lpArmed, lpOrphan, otherThanLoop>>

\* The one outside trigger: the configuration file is saved with another
\* outputFile.
TriggerConfigChange ==
  /\ lpOn /\ ~lpTriggered
  /\ lpTriggered' = TRUE
  /\ lpConfigOut' = "B"
  /\ lpEvents' = lpEvents \cup {"config"}
  /\ UNCHANGED <<lpOn, lpRuns, lpCache, lpWatchOut, lpWatchIgnore,
                 lpIncludeTmp, lpIgnore, lpArmed, lpOrphan, otherThanLoop>>

\* The one outside trigger: reposcribe.forceRebuild.
TriggerForceRebuild ==
  /\ lpOn /\ ~lpTriggered
  /\ lpTriggered' = TRUE
  /\ LoopGenerate("none", FALSE)
  /\ UNCHANGED <<lpOn, lpConfigOut, lpWatchOut, lpWatchIgnore, lpIncludeTmp,
                 lpIgnore, lpEvents, lpArmed, lpOrphan, otherThanLoop>>

\* An event reaches the two watchers. onGeneralChange drops it when the path
\* is the output file or the pre-filter ignores it, and calls the debounced
\* function else; onConfigChange, for .gitignore and the configuration file,
\* clears the cache and calls generate(), resetWatchers to follow.
DeliverEvent(e) ==
  /\ e \in lpEvents
  /\ lpEvents' = lpEvents \ {e}
  /\ lpArmed' = (lpArmed \/ (e # lpWatchOut /\ ~lpPreFilterIgnores(e)))
  /\ IF e \in {".gitignore", "config"}
     THEN LoopGenerate("none", TRUE)
     ELSE UNCHANGED <<lpRuns, lpCache>>
  /\ UNCHANGED <<lpOn, lpConfigOut, lpWatchOut, lpWatchIgnore, lpIncludeTmp,
                 lpIgnore, lpOrphan, lpTriggered, otherThanLoop>>

\* The timer of this.debouncedGenerate runs out.
LoopDebounceFires ==
  /\ lpArmed
  /\ lpArmed' = FALSE
  /\ LoopGenerate(lpCache, FALSE)
  /\ UNCHANGED <<lpOn, lpConfigOut, lpWatchOut, lpWatchIgnore, lpIncludeTmp,
                 lpIgnore, lpEvents, lpOrphan, lpTriggered, otherThanLoop>>

\* The timer of a debounced function that resetWatchers replaced runs out.
LoopOrphanFires ==
  /\ lpOrphan
  /\ lpOrphan' = FALSE
  /\ LoopGenerate(lpCache, FALSE)
  /\ UNCHANGED <<lpOn, lpConfigOut, lpWatchOut, lpWatchIgnore, lpIncludeTmp,
                 lpIgnore, lpEvents, lpArmed, lpTriggered, otherThanLoop>>

\* atomicWrite: fse.outputFile(tmpPath, ...) creates the temp file.
LoopWriteTmp(r) ==
  /\ lpRuns[r].pc = "tmp"
  /\ lpRuns' = [lpRuns EXCEPT ![r].pc = "move"]
  /\ lpEvents' = lpEvents \cup {"tmp"}
  /\ UNCHANGED <<lpOn, lpConfigOut, lpCache, lpWatchOut, lpWatchIgnore,
                 lpIncludeTmp, lpIgnore, lpArmed, lpOrphan, lpTriggered,
                 otherThanLoop>>

\* atomicWrite: fse.move(tmpPath, filePath): the temp file goes, the output
\* file is there.
LoopMove(r) ==
  /\ lpRuns[r].pc = "move"
  /\ lpRuns' = [lpRuns EXCEPT ![r].pc = "ugit"]
  /\ lpEvents' = lpEvents \cup {"tmp", lpRuns[r].out}
  /\ UNCHANGED <<lpOn, lpConfigOut, lpCache, lpWatchOut, lpWatchIgnore,
                 lpIncludeTmp, lpIgnore, lpArmed, lpOrphan, lpTriggered,
                 otherThanLoop>>

\* updateGitignore: the line is added unless it is there.
LoopUpdateGitignore(r) ==
  /\ lpRuns[r].pc = "ugit"
  /\ lpRuns' = [lpRuns EXCEPT ![r].pc = "then"]
  /\ lpIgnore' = lpIgnore \cup {lpRuns[r].out}
  /\ lpEvents' = IF lpRuns[r].out \in lpIgnore THEN lpEvents
                 ELSE lpEvents \cup {".gitignore"}
  /\ UNCHANGED <<lpOn, lpConfigOut, lpCache, lpWatchOut, lpWatchIgnore,
                 lpIncludeTmp, lpArmed, lpOrphan, lpTriggered, otherThanLoop>>

\* generate() resolves; after a run that onConfigChange started,
\* resetWatchers makes the debounced function, the pre-filter and the
\* handlers anew from the configuration and .gitignore as they are now.
LoopFinish(r) ==
  /\ lpRuns[r].pc = "then"
  /\ lpRuns' = [lpRuns EXCEPT ![r] = LoopIdle]
  /\ IF lpRuns[r].reset
     THEN LET out == IF lpCache = "none" THEN lpConfigOut ELSE lpCache
          IN  /\ lpCache' = out
              /\ lpWatchOut' = out
              /\ lpWatchIgnore' = lpIgnore
              /\ lpOrphan' = (lpOrphan \/ lpArmed)
              /\ lpArmed' = FALSE
     ELSE UNCHANGED <<lpCache, lpWatchOut, lpWatchIgnore, lpOrphan, lpArmed>>
  /\ UNCHANGED <<lpOn, lpConfigOut, lpIncludeTmp, lpIgnore, lpEvents,
                 lpTriggered, otherThanLoop>>

NextLoop ==
  \/ TriggerFileChange
  \/ TriggerConfigChange
  \/ TriggerForceRebuild
  \/ \E e \in LoopPaths : DeliverEvent(e)
  \/ LoopDebounceFires
  \/ LoopOrphanFires
  \/ \E r \in LoopSlots : LoopWriteTmp(r)
  \/ \E r \in LoopSlots : LoopMove(r)
  \/ \E r \in LoopSlots : LoopUpdateGitignore(r)
  \/ \E r \in LoopSlots : LoopFinish(r)

SpecLoop == InitLoop /\ [][NextLoop]_vars

\* Events are delivered, timers run out and the steps of a run complete.
LoopFairness ==
  /\ \A e \in LoopPaths : WF_vars(DeliverEvent(e))
  /\ WF_vars(LoopDebounceFires)
  /\ WF_vars(LoopOrphanFires)
  /\ \A r \in LoopSlots :
       /\ WF_vars(LoopWriteTmp(r))
       /\ WF_vars(LoopMove(r))
       /\ WF_vars(LoopUpdateGitignore(r))
       /\ WF_vars(LoopFinish(r))

SpecLoopFair == SpecLoop /\ LoopFairness

\* No run is in progress, no event is waiting and no timer is pending.
LoopQuiet ==
  /\ \A r \in LoopSlots : lpRuns[r].pc = "idle"
  /\ lpEvents = {}
  /\ ~lpArmed
  /\ ~lpOrphan

\* After the one trigger the system comes to rest for good.
LoopSettles == <>[]LoopQuiet

\* A delivered event about the output file of the configuration in force
\* does not start the timer of the debounced function.
OutputEventDropped ==
  [][ \A e \in OutputNames :
        (e \in lpEvents /\ e \notin lpEvents' /\ e = lpConfigOut) =>
          ~(lpArmed' /\ ~lpArmed) ]_vars

\* C26: after one trigger and with no other change from outside the runs
\* come to an end and the system stays at rest, and an event about the
\* current output file never schedules a run.
C26_NoSelfTrigger == LoopSettles /\ OutputEventDropped

\* ------------------------------------------------------------------------
\* SpecRefresh: what the watcher's pre-filter and output path were built from,
\* against the configuration and .gitignore on disk, for runs of every trigger
\* ------------------------------------------------------------------------
RefreshSlots == 1..MaxRefreshSlots

InitRefresh ==
  /\ EarlierOff /\ PriorOff /\ GitOff /\ OrderOff /\ ResetOff /\ SelOff
  /\ refreshState \in
       [ paused : BOOLEAN,
         configFile : {0},
         gitFile : {0},
         cache : {Some(0)},
         watch : {[config |-> 0, git |-> 0]},
         configEvents : {0},
         armed : {FALSE},
         runs : {[r \in RefreshSlots |-> RefreshIdle]} ]

otherThanRefresh == <<earlierVars, priorVars, gitVars, orderVars, resetVars, selVars>>

\* The configuration a getConfigContext() call made in this state returns.
LatestKnownConfig == IF rfCache.set THEN rfCache.value ELSE rfConfigFile

\* A slot is left for one more generate() call.
HasFreeSlot == \E r \in RefreshSlots : rfRuns[r].pc = "idle"

\* coordinator.generate() is called: the runs in progress with the new run at
\* its first await.
rfGenerate(by) ==
  LET free == {r \in RefreshSlots : rfRuns[r].pc = "idle"}
      r == CHOOSE x \in free : \A y \in free : x <= y
  IN  [rfRuns EXCEPT ![r] = [RefreshIdle EXCEPT !.pc = "config", !.by = by]]

\* The user saves .reposcribe.config.js; the config watcher will hear of it.
RfEditConfig ==
  /\ rfConfigFile + rfGitFile < MaxRefreshEdits
  /\ refreshState' = [refreshState EXCEPT
       !.configFile = rfConfigFile + 1,
       !.configEvents = rfConfigEvents + 1]
  /\ UNCHANGED otherThanRefresh

\* The user saves .gitignore.
RfEditGitignore ==
  /\ rfConfigFile + rfGitFile < MaxRefreshEdits
  /\ refreshState' = [refreshState EXCEPT
       !.gitFile = rfGitFile + 1,
       !.configEvents = rfConfigEvents + 1]
  /\ UNCHANGED otherThanRefresh

\* onConfigChange: nothing while paused; else clearCache() and generate(),
\* resetWatchers to follow.
RfConfigEvent ==
  /\ rfConfigEvents > 0
  /\ rfPaused \/ HasFreeSlot
  /\ refreshState' = [refreshState EXCEPT
       !.configEvents = rfConfigEvents - 1,
       !.cache = IF rfPaused THEN rfCache ELSE None,
       !.runs = IF rfPaused THEN rfRuns ELSE rfGenerate("config")]
  /\ UNCHANGED otherThanRefresh

\* onGeneralChange for a source file that the pre-filter lets through.
RfGeneralEvent ==
  /\ ~rfPaused
  /\ refreshState' = [refreshState EXCEPT !.armed = TRUE]
  /\ UNCHANGED otherThanRefresh

\* The timer of the debounced function runs out: coordinator.generate().
RfDebounceFires ==
  /\ rfArmed
  /\ HasFreeSlot
  /\ refreshState' = [refreshState EXCEPT
       !.armed = FALSE,
       !.runs = rfGenerate("debounce")]
  /\ UNCHANGED otherThanRefresh

\* reposcribe.forceRebuild: clearCache(), generate().
RfForceRebuild ==
  /\ HasFreeSlot
  /\ refreshState' = [refreshState EXCEPT
       !.cache = None,
       !.runs = rfGenerate("force")]
  /\ UNCHANGED otherThanRefresh

\* reposcribe.toggleAutoGeneration, pausing.
RfPause ==
  /\ ~rfPaused
  /\ refreshState' = [refreshState EXCEPT !.paused = TRUE]
  /\ UNCHANGED otherThanRefresh

\* reposcribe.toggleAutoGeneration, resuming: clearCache(), generate().
RfResume ==
  /\ rfPaused
  /\ HasFreeSlot
  /\ refreshState' = [refreshState EXCEPT
       !.paused = FALSE,
       !.cache = None,
       !.runs = rfGenerate("resume")]
  /\ UNCHANGED otherThanRefresh

\* The run gets its configuration from getConfigContext() and reads
\* .gitignore.
RfRunLoads(r) ==
  /\ rfRuns[r].pc = "config"
  /\ refreshState' = [refreshState EXCEPT
       !.runs = [rfRuns EXCEPT ![r].pc = "write",
                               ![r].config = LatestKnownConfig,
                               ![r].git = rfGitFile],
       !.cache = Some(LatestKnownConfig)]
  /\ UNCHANGED otherThanRefresh

\* What the caller of generate() does when the promise resolves: only
\* onConfigChange goes on to resetWatchers, which makes relativeOutputFile from
\* getConfigContext() and the pre-filter from that and .gitignore.
AfterRun(by) ==
  IF by = "config"
  THEN [cache |-> Some(LatestKnownConfig),
        watch |-> [config |-> LatestKnownConfig, git |-> rfGitFile]]
  ELSE [cache |-> rfCache, watch |-> rfWatch]

\* generate() resolves.
RfRunCompletes(r) ==
  /\ rfRuns[r].pc = "write"
  /\ refreshState' = [refreshState EXCEPT
       !.runs = [rfRuns EXCEPT ![r] = RefreshIdle],
       !.cache = AfterRun(rfRuns[r].by).cache,
       !.watch = AfterRun(rfRuns[r].by).watch]
  /\ UNCHANGED otherThanRefresh

NextRefresh ==
  \/ RfEditConfig
  \/ RfEditGitignore
  \/ RfConfigEvent
  \/ RfGeneralEvent
  \/ RfDebounceFires
  \/ RfForceRebuild
  \/ RfPause
  \/ RfResume
  \/ \E r \in RefreshSlots : RfRunLoads(r)
  \/ \E r \in RefreshSlots : RfRunCompletes(r)

SpecRefresh == InitRefresh /\ [][NextRefresh]_vars

\* C32: when a run completes, whatever called generate(), the watcher's
\* output path and pre-filter are those made from the latest configuration
\* (the cached one, or the file when the cache is empty) and the .gitignore of
\* that moment.
C32_FilterRebuiltAfterRun ==
  [][\A r \in RefreshSlots :
       (rfRuns[r].pc = "write" /\ rfRuns'[r].pc = "idle")
         => rfWatch' = [config |-> LatestKnownConfig', git |-> rfGitFile']]_vars

\* ------------------------------------------------------------------------
\* SpecGitignore: FileSystem.updateGitignore on the text of .gitignore.  A
\* text is a sequence of characters: a letter, the letter the output file is
\* named by, a space, a line feed and a backslash.
\* ------------------------------------------------------------------------
GitignoreChars == {"A", "O", "SP", "NL", "BS"}

\* finalConfig.outputFile
OutputFileName == <<"O">>

\* The characters String.prototype.trim takes for white space.
IsWhiteSpace(c) == c \in {"SP", "NL"}

RECURSIVE trimEnd(_)
\* content.trimEnd()
trimEnd(s) ==
  IF s = <<>> THEN <<>>
  ELSE IF IsWhiteSpace(s[Len(s)]) THEN trimEnd(SubSeq(s, 1, Len(s) - 1))
  ELSE s

RECURSIVE trimStart(_)
trimStart(s) ==
  IF s = <<>> THEN <<>>
  ELSE IF IsWhiteSpace(s[1]) THEN trimStart(Tail(s))
  ELSE s

\* content.trim()
trim(s) == trimStart(trimEnd(s))

RECURSIVE splitLines(_)
\* content.split(/\r?\n/): the lines, an empty text giving one empty line
splitLines(s) ==
  IF \A i \in 1..Len(s) : s[i] # "NL" THEN <<s>>
  ELSE LET i == CHOOSE k \in 1..Len(s) :
                  s[k] = "NL" /\ \A j \in 1..(k - 1) : s[j] # "NL"
       IN  <<SubSeq(s, 1, i - 1)>> \o splitLines(SubSeq(s, i + 1, Len(s)))

\* lines.includes(outputFile)
includes(lines, entry) == \E i \in 1..Len(lines) : lines[i] = entry

\* updateGitignore(workspaceRoot, outputFile) for the file as it is read: what
\* the file is afterwards and whether writeFile was called.
updateGitignore(file, outputFile) ==
  LET content == IF file.set THEN file.value ELSE <<>>
      lines == splitLines(content)
      newContent == IF Len(trim(content)) > 0
                    THEN trimEnd(content) \o <<"NL">> \o outputFile \o <<"NL">>
                    ELSE outputFile \o <<"NL">>
  IN  IF includes(lines, outputFile)
      THEN [wrote |-> FALSE, file |-> file]
      ELSE [wrote |-> TRUE, file |-> Some(newContent)]

InitGitignore ==
  /\ EarlierOff /\ PriorOff /\ RefreshOff /\ OrderOff /\ ResetOff /\ SelOff
  /\ gitignoreState \in
       [ file : {None} \cup {Some(s) : s \in SeqsUpTo(GitignoreChars, MaxGitignoreChars)},
         before : {None},
         wrote : {FALSE},
         calls : {<<>>} ]

otherThanGitignore == <<earlierVars, priorVars, refreshVars, orderVars, resetVars, selVars>>

\* A call of updateGitignore that returns.
GiUpdate ==
  /\ Len(giCalls) < MaxGitignoreCalls
  /\ gitignoreState' = [gitignoreState EXCEPT
       !.before = giFile,
       !.file = updateGitignore(giFile, OutputFileName).file,
       !.wrote = updateGitignore(giFile, OutputFileName).wrote,
       !.calls = Append(giCalls, "returned")]
  /\ UNCHANGED otherThanGitignore

\* readFile rejects with an error other than FileNotFound: it is thrown again.
GiReadRejects ==
  /\ Len(giCalls) < MaxGitignoreCalls
  /\ giFile.set
  /\ gitignoreState' = [gitignoreState EXCEPT
       !.before = giFile,
       !.wrote = FALSE,
       !.calls = Append(giCalls, "threw")]
  /\ UNCHANGED otherThanGitignore

\* writeFile rejects.
GiWriteRejects ==
  /\ Len(giCalls) < MaxGitignoreCalls
  /\ updateGitignore(giFile, OutputFileName).wrote
  /\ gitignoreState' = [gitignoreState EXCEPT
       !.before = giFile,
       !.wrote = FALSE,
       !.calls = Append(giCalls, "threw")]
  /\ UNCHANGED otherThanGitignore

NextGitignore ==
  \/ GiUpdate
  \/ GiReadRejects
  \/ GiWriteRejects

SpecGitignore == InitGitignore /\ [][NextGitignore]_vars

\* The text of a file, an absent file having none.
TextOf(file) == IF file.set THEN file.value ELSE <<>>

\* How many lines of a text are the entry.
EntryCount(text) ==
  Cardinality({i \in 1..Len(splitLines(text)) : splitLines(text)[i] = OutputFileName})

RECURSIVE StripRule(_)
\* A line as git reads it: spaces at the end do not count unless a backslash
\* quotes them.
StripRule(line) ==
  IF line = <<>> THEN <<>>
  ELSE IF /\ line[Len(line)] = "SP"
          /\ ~(Len(line) >= 2 /\ line[Len(line) - 1] = "BS")
       THEN StripRule(SubSeq(line, 1, Len(line) - 1))
       ELSE line

RECURSIVE RulesOfLines(_)
RulesOfLines(lines) ==
  IF lines = <<>> THEN <<>>
  ELSE (IF StripRule(lines[1]) = <<>> THEN <<>> ELSE <<StripRule(lines[1])>>)
         \o RulesOfLines(Tail(lines))

\* The rules of a text, in order: its lines that are not blank.
Rules(text) == RulesOfLines(splitLines(text))

\* The last call returned.
GiReturned == giCalls # <<>> /\ giCalls[Len(giCalls)] = "returned"

\* A call that found the entry as a line left the file alone.
GiNoWriteWhenListed ==
  (GiReturned /\ EntryCount(TextOf(giBefore)) > 0)
    => (~giWrote /\ giFile = giBefore)

\* A call that did not find it wrote a file whose last line is the entry, and
\* that is the whole file when there was none.
GiAppendedLast ==
  (GiReturned /\ EntryCount(TextOf(giBefore)) = 0)
    => /\ giWrote /\ giFile.set
       /\ LET lines == splitLines(giFile.value)
          IN  /\ Len(lines) >= 2
              /\ lines[Len(lines)] = <<>>
              /\ lines[Len(lines) - 1] = OutputFileName
       /\ ~giBefore.set => giFile.value = OutputFileName \o <<"NL">>

\* The rules that were there are kept, in order, with the entry after them
\* when it was added.
GiRulesKept ==
  GiReturned =>
    Rules(TextOf(giFile)) =
      Rules(TextOf(giBefore)) \o (IF giWrote THEN <<OutputFileName>> ELSE <<>>)

\* A call leaves the entry on one line when it was on none, and adds none
\* when it was there.
GiEntryOnce ==
  GiReturned =>
    EntryCount(TextOf(giFile)) =
      (IF EntryCount(TextOf(giBefore)) = 0 THEN 1 ELSE EntryCount(TextOf(giBefore)))

\* C34: updateGitignore does not write when the output file is a line of
\* .gitignore; else it appends it as the new last line, creating the file with
\* that one entry when there was none; the rules that were there are kept in
\* order; and after any number of calls that return the entry is on one line
\* (on as many as before, when it was there before the first call).
C34_IdempotentAppend ==
  /\ GiNoWriteWhenListed
  /\ GiAppendedLast
  /\ GiRulesKept
  /\ GiEntryOnce

\* ------------------------------------------------------------------------
\* SpecOrder: generate() calls that overlap, and whose snapshot the output
\* file holds in the end
\* ------------------------------------------------------------------------
InitOrder ==
  /\ EarlierOff /\ PriorOff /\ RefreshOff /\ GitOff /\ ResetOff /\ SelOff
  /\ orderState =
       [ workspace |-> 1,
         runs |-> <<>>,
         output |-> 0,
         changed |-> FALSE ]

otherThanOrder == <<earlierVars, priorVars, refreshVars, gitVars, resetVars, selVars>>

\* A file of the workspace is created, changed or deleted.
OrChange ==
  /\ orWorkspace < 1 + MaxOrderChanges
  /\ orderState' = [orderState EXCEPT
       !.workspace = orWorkspace + 1,
       !.changed = TRUE]
  /\ UNCHANGED otherThanOrder

\* A trigger calls generate(): nothing in it looks at the calls in progress.
OrGenerate ==
  /\ Len(orRuns) < MaxOrderRuns
  /\ orderState' = [orderState EXCEPT
       !.runs = Append(orRuns, [pc |-> "scan", snap |-> 0]),
       !.changed = FALSE]
  /\ UNCHANGED otherThanOrder

\* scanner.scan and the reads: the snapshot is of the files as they are now.
OrScan(r) ==
  /\ orRuns[r].pc = "scan"
  /\ orderState' = [orderState EXCEPT !.runs = [orRuns EXCEPT ![r] = [pc |-> "write", snap |-> orWorkspace]]]
  /\ UNCHANGED otherThanOrder

\* fs.atomicWrite(outputFilePath, markdownContent) and the end of the try.
OrWrite(r) ==
  /\ orRuns[r].pc = "write"
  /\ orderState' = [orderState EXCEPT
       !.output = orRuns[r].snap,
       !.runs = [orRuns EXCEPT ![r].pc = "done"]]
  /\ UNCHANGED otherThanOrder

\* A stage throws: the catch block, the output file as it was.
OrFail(r) ==
  /\ orRuns[r].pc \in {"scan", "write"}
  /\ orderState' = [orderState EXCEPT !.runs = [orRuns EXCEPT ![r].pc = "error"]]
  /\ UNCHANGED otherThanOrder

NextOrder ==
  \/ OrChange
  \/ OrGenerate
  \/ \E r \in 1..Len(orRuns) : OrScan(r)
  \/ \E r \in 1..Len(orRuns) : OrWrite(r)
  \/ \E r \in 1..Len(orRuns) : OrFail(r)

SpecOrder == InitOrder /\ [][NextOrder]_vars

\* C36: when every generate() call has ended, the workspace has not changed
\* after the last call was made and that call has succeeded, the output file
\* holds the snapshot that call computed.
C36_LatestSnapshotWins ==
  ( /\ orRuns # <<>>
    /\ \A r \in 1..Len(orRuns) : orRuns[r].pc \in {"done", "error"}
    /\ ~orChanged
    /\ orRuns[Len(orRuns)].pc = "done" )
  => orOutput = orRuns[Len(orRuns)].snap

\* ------------------------------------------------------------------------
\* SpecReset: resetWatchers calls that overlap, auto-generation running
\* ------------------------------------------------------------------------
\* initialize() has returned: one config watcher and one general watcher.
InitReset ==
  /\ EarlierOff /\ PriorOff /\ RefreshOff /\ GitOff /\ OrderOff /\ SelOff
  /\ resetState =
       [ live |-> 1,
         runs |-> 0,
         awaitConfig |-> 0,
         awaitFilter |-> 0,
         armed |-> FALSE,
         orphan |-> FALSE,
         owed |-> FALSE,
         calls |-> 0,
         events |-> 0 ]

otherThanReset == <<earlierVars, priorVars, refreshVars, gitVars, orderVars, selVars>>

\* .gitignore or the configuration file changes: onConfigChange of every
\* live config watcher clears the cache and calls generate(), resetWatchers to
\* follow.
RsConfigEvent ==
  /\ rsEvents < MaxResetEvents
  /\ resetState' = [resetState EXCEPT
       !.events = rsEvents + 1,
       !.runs = rsRuns + rsLive,
       !.owed = (rsOwed /\ rsLive = 0)]
  /\ UNCHANGED otherThanReset

\* A file of the snapshot is created, changed or deleted: onGeneralChange of
\* every live general watcher calls this.debouncedGenerate().
RsFileEvent ==
  /\ resetState' = [resetState EXCEPT
       !.calls = rsLive,
       !.armed = (rsArmed \/ rsLive > 0),
       !.owed = TRUE]
  /\ UNCHANGED otherThanReset

\* The timer of this.debouncedGenerate runs out: generate().
RsDebounceFires ==
  /\ rsArmed
  /\ resetState' = [resetState EXCEPT
       !.armed = FALSE,
       !.owed = FALSE]
  /\ UNCHANGED otherThanReset

\* The timer of a replaced debounced function runs out: generate().
RsOrphanFires ==
  /\ rsOrphan
  /\ resetState' = [resetState EXCEPT
       !.orphan = FALSE,
       !.owed = FALSE]
  /\ UNCHANGED otherThanReset

\* disposeWatchers(): every watcher of the list is disposed, the list emptied.
disposeWatchers(live) == 0

\* A run of onConfigChange resolves and resetWatchers begins: disposeWatchers()
\* and the call of getConfigContext(), in one turn.
RsResetBegins ==
  /\ rsRuns > 0
  /\ resetState' = [resetState EXCEPT
       !.runs = rsRuns - 1,
       !.live = disposeWatchers(rsLive),
       !.awaitConfig = rsAwaitConfig + 1]
  /\ UNCHANGED otherThanReset

\* getConfigContext() resolves: a new debounced function replaces the old one,
\* whose timer stays pending, and createPreFilter is called.
RsResetDebounce ==
  /\ rsAwaitConfig > 0
  /\ resetState' = [resetState EXCEPT
       !.awaitConfig = rsAwaitConfig - 1,
       !.awaitFilter = rsAwaitFilter + 1,
       !.orphan = (rsOrphan \/ rsArmed),
       !.armed = FALSE]
  /\ UNCHANGED otherThanReset

\* createPreFilter resolves: the two watchers are created, their handlers
\* registered, and both pushed onto this.disposables.
RsResetRegisters ==
  /\ rsAwaitFilter > 0
  /\ resetState' = [resetState EXCEPT
       !.awaitFilter = rsAwaitFilter - 1,
       !.live = rsLive + 1]
  /\ UNCHANGED otherThanReset

NextReset ==
  \/ RsConfigEvent
  \/ RsFileEvent
  \/ RsDebounceFires
  \/ RsOrphanFires
  \/ RsResetBegins
  \/ RsResetDebounce
  \/ RsResetRegisters

SpecReset == InitReset /\ [][NextReset]_vars

\* Timers run out and awaited calls settle; no event has to happen.
ResetFairness ==
  /\ WF_vars(RsDebounceFires)
  /\ WF_vars(RsOrphanFires)
  /\ WF_vars(RsResetBegins)
  /\ WF_vars(RsResetDebounce)
  /\ WF_vars(RsResetRegisters)

SpecResetFair == SpecReset /\ ResetFairness

\* C37: at most one pair of watchers is live at any time, and a file event
\* calls the debounced function at most once.
C37_OneWatcherPair == rsLive <= 1 /\ rsCalls <= 1

\* C38: after a file of the snapshot has changed, a run starts.
C38_NoChangeLost == rsOwed ~> ~rsOwed

\* ------------------------------------------------------------------------
\* SpecSelection: the command reposcribe.generateForSelection and
\* GenerationCoordinator.generateMarkdownForSelection
\* ------------------------------------------------------------------------
\* The directories of the workspace: the proper prefixes of its files.
WorkspaceDirs ==
  UNION {{Prefix(f, k) : k \in 1..(Len(f) - 1)} : f \in Range(allRelativeFiles)}

\* What the user may select in the Explorer, and a path that is gone by the
\* time it is looked at.
SelectablePaths == Range(allRelativeFiles) \cup WorkspaceDirs \cup {<<"gone.ts">>}

\* fileStats[i]?.type, this.fs.stat(p).catch(() => null)
statType(p) ==
  IF p \in Range(allRelativeFiles) THEN "File"
  ELSE IF p \in WorkspaceDirs THEN "Directory"
  ELSE "null"

\* file.startsWith(dir + path.sep)
startsWithDir(file, dir) ==
  Len(file) > Len(dir) /\ Prefix(file, Len(dir)) = dir

\* A variant that adds every selected file, scanned or not.
filesInSelection_unchecked(scanned, selectedDirs, selectedFiles) ==
  {f \in Range(scanned) : \E dir \in selectedDirs : f = dir \/ startsWithDir(f, dir)}
    \cup selectedFiles

\* The two loops that fill filesInSelection.
filesInSelection(scanned, selectedDirs, selectedFiles) ==
  {f \in Range(scanned) : \E dir \in selectedDirs : f = dir \/ startsWithDir(f, dir)}
    \cup {f \in selectedFiles : includes(scanned, f)}

InitSelection ==
  /\ EarlierOff /\ PriorOff /\ RefreshOff /\ GitOff /\ OrderOff /\ ResetOff
  /\ selectionState \in
       [ pc : {"input"},
         selected : {sel \in SUBSET SelectablePaths :
                       Cardinality(sel) \in 1..MaxSelected},
         userExclude : SeqsUpTo(ExcludePool, MaxSelectionExcludes),
         scan : {<<>>},
         result : {{}},
         world : [status : {"IDLE", "PAUSED"}, output : {"absent", "written"},
                  gitignoreListsOutput : {FALSE}, idleTimer : BOOLEAN],
         atCall : {IdleWorld} ]

otherThanSelection ==
  <<earlierVars, priorVars, refreshVars, gitVars, orderVars, resetVars>>

\* The command: ui.updateStatus(UIState.GENERATING), then the call.
SelCommand ==
  /\ slPc = "input"
  /\ selectionState' = [selectionState EXCEPT
       !.pc = "config",
       !.world = [slWorld EXCEPT !.status = "GENERATING"],
       !.atCall = [slWorld EXCEPT !.status = "GENERATING"]]
  /\ UNCHANGED otherThanSelection

\* getConfigContext(), the read of .gitignore, scanner.scan.
SelScan ==
  /\ slPc = "config"
  /\ selectionState' = [selectionState EXCEPT
       !.pc = "stat",
       !.scan = scan(allRelativeFiles, BaseExclude,
                     [include |-> <<>>, exclude |-> slUserExclude], <<>>)]
  /\ UNCHANGED otherThanSelection

\* getConfigContext() or scan rejects: so does the call.
SelScanRejects ==
  /\ slPc = "config"
  /\ selectionState' = [selectionState EXCEPT !.pc = "rejected"]
  /\ UNCHANGED otherThanSelection

\* The stats of the selected paths and the two loops.
SelFilter ==
  /\ slPc = "stat"
  /\ selectionState' = [selectionState EXCEPT
       !.pc = "read",
       !.result = filesInSelection(slScan,
                    {p \in slSelected : statType(p) = "Directory"},
                    {p \in slSelected : statType(p) = "File"})]
  /\ UNCHANGED otherThanSelection

\* buildFileTree, the reads of the files, build: the string is returned.
SelBuild ==
  /\ slPc = "read"
  /\ selectionState' = [selectionState EXCEPT !.pc = "returned"]
  /\ UNCHANGED otherThanSelection

\* The command after the call: the clipboard, ui.updateStatus(UPDATED).
SelCommandEnds ==
  /\ slPc = "returned"
  /\ selectionState' = [selectionState EXCEPT
       !.pc = "done",
       !.world = [slWorld EXCEPT !.status = "UPDATED"]]
  /\ UNCHANGED otherThanSelection

\* The catch block of the command: ui.updateStatus(ERROR).
SelCommandCatch ==
  /\ slPc = "rejected"
  /\ selectionState' = [selectionState EXCEPT
       !.pc = "done",
       !.world = [slWorld EXCEPT !.status = "ERROR"]]
  /\ UNCHANGED otherThanSelection

NextSelection ==
  \/ SelCommand
  \/ SelScan
  \/ SelScanRejects
  \/ SelFilter
  \/ SelBuild
  \/ SelCommandEnds
  \/ SelCommandCatch

SpecSelection == InitSelection /\ [][NextSelection]_vars

\* Path f is below directory d.
LiesUnder(f, d) == \E k \in 1..(Len(f) - 1) : Prefix(f, k) = d

\* C39: from the call of generateMarkdownForSelection to its end the output
\* file, .gitignore, the status shown and the idle timer are as they were at
\* the call; the files of its result are the files of the scan result that
\* are selected or lie under a selected path, so a selected file that the scan
\* leaves out is not among them.
C39_SelectionWithinScan ==
  /\ slPc \in {"config", "stat", "read", "returned", "rejected"}
       => slWorld = slAtCall
  /\ slPc \in {"read", "returned"}
       => /\ slResult = {f \in Range(slScan) :
                           f \in slSelected \/ \E d \in slSelected : LiesUnder(f, d)}
          /\ \A p \in slSelected : p \notin Range(slScan) => p \notin slResult

\* The call has returned for a selection of a directory, of which a file is
\* in the result, and a file that the scan leaves out.
C39_Witness ==
  /\ slPc = "returned"
  /\ \E d, p \in slSelected :
       /\ statType(d) = "Directory" /\ statType(p) = "File"
       /\ p \notin Range(slScan)
       /\ \E f \in slResult : LiesUnder(f, d)

====
